---------------------------- MODULE Spec2Model ----------------------------
(***************************************************************************)
(* Model of the ms-graph-next-app assistant: the chat client               *)
(* (src/app/components/Assistant.tsx) and the query-time                   *)
(* retrieval-and-answer pipeline it talks to (the FastAPI backend, whose   *)
(* main.py is not among the sources; it is modelled from spec.md sections  *)
(* 3 to 7).                                                                *)
(***************************************************************************)
EXTENDS Integers, Sequences, FiniteSets, TLC

VARIABLES
    \* ---- the Assistant component (Assistant.tsx:53-70) ----
    userId,           \* the userId prop
    mounted,          \* whether the mount effects have run
    messages,         \* useState<Message[]>
    isLoading,        \* useState(false)
    isRagSynced,      \* useState(false)
    isRagSyncing,     \* useState(false)
    retryingMessage,  \* useState<string | null>: <<>> is null, <<text>> a text
    localStorage,     \* rag_sync_status_<user> and chat_history_<user>
    inflight,         \* the pending fetches to /query
    syncflight,       \* the pending fetches to /load_user_data
    \* ---- the backend ----
    db,               \* the record source (Postgres rows, as record sets)
    store,            \* the published Record Store
    loader,           \* the load_user_data rebuild in progress
    versions,         \* every store that was ever published complete
    config,           \* top_k default and max_context_chars
    session,          \* the Query Session of answer_query
    docdb,            \* the tables documents and document_pages
    \* ---- observation ----
    log,              \* the executions of answer_query that have responded
    probe             \* a call of one function on its own: arguments, result

vars == << userId, mounted, messages, isLoading, isRagSynced, isRagSyncing,
           retryingMessage, localStorage, inflight, syncflight,
           db, store, loader, versions, config, session, docdb, log, probe >>

clientVars == << userId, mounted, messages, isLoading, isRagSynced,
                 isRagSyncing, retryingMessage, localStorage >>

serverVars == << db, store, loader, versions, config, session, docdb, log,
                 probe >>

---------------------------------------------------------------------------
(* Bounds of the model.                                                    *)

\* the largest configured top_k
MaxTopK == 3
\* the longest conversation of the end-to-end specification
MaxE2EMsgs == 3
\* the longest conversation of the client specification
MaxMsgs == 8
\* the longest conversation in which the user still starts a sync
MaxSyncMsgs == 2
\* the largest configured max_context_chars
MaxContextChars == 4
\* rows the record source may be short of while a rebuild is watched
MaxMissingRows == 1
\* messages of a conversation that runs beside a rebuild
MaxSwapMsgs == 2
\* executions of answer_query an observer compares
MaxRuns == 2
\* the largest id the documents table hands out
MaxDocId == 3
\* the longest conversation of the stored conversations
MaxHistoryMsgs == 5
\* the longest conversation of the Assistant whose user changes
MaxUsersMsgs == 3
\* the longest conversation a query of the retried conversations extends
MaxRetryMsgs == 5
\* the most rows of a batch given to an upsert
MaxBatch == 2
\* the most requests to /api/db-sync in a row
MaxPosts == 2
\* the most pages of 50 items a mailbox or a week holds
MaxPages == 2
\* the most clicks on the sign-in and sign-out buttons
MaxClicks == 2
\* the most non-empty pages of an uploaded PDF
MaxPdfPages == 2
\* the most items a paginated list holds
MaxTotalItems == 12
\* the most items a page shows
MaxItemsPerPage == 2

---------------------------------------------------------------------------
(* Generic helpers.                                                        *)

Min(a, b) == IF a <= b THEN a ELSE b

Max(a, b) == IF a >= b THEN a ELSE b

Range(s) == { s[i] : i \in 1..Len(s) }

Last(s) == s[Len(s)]

\* String.prototype.includes on character sequences
Includes(s, t) ==
    \E i \in 0..(Len(s) - Len(t)) :
        \A k \in 1..Len(t) : s[i + k] = t[k]

---------------------------------------------------------------------------
(* Text.  A text is a sequence of characters; the literals of the source   *)
(* are shortened to stand-ins that keep what the code depends on: which    *)
(* of them hold a double quote and which hold the phrase                   *)
(* 'I encountered an error'.                                               *)

Q == "\""

SP == " "

\* 'I encountered an error'
ErrorPhrase == << "I", "e" >>

\* `I'm sorry, I encountered an error while processing your request: `
SubmitErrorPrefix == << "s" >> \o ErrorPhrase \o << "p", ":", SP >>

\* `. You can try again or ask a different question.`
SubmitErrorSuffix == << ".", SP, "t" >>

\* `I encountered an error while syncing your data. Please try again ...`
SyncErrorText == ErrorPhrase \o << SP, "y", "." >>

\* `I've successfully synced your data. ...`
SyncOkText == << "K" >>

\* 'Hello! I\'m your personal assistant. How can I help you today?'
GreetingText == << "H" >>

\* what the user may have typed into the textarea
Inputs ==
    { << "a" >>, << SP, "a", SP >>, << SP >>, << "a", Q, "b" >>, << Q >> }

\* the inputs of the long conversations
FewInputs == { << "a" >>, << SP, "a", SP >>, << SP >>, << "a", Q, "b" >> }

\* String.prototype.trim
RECURSIVE TrimLeft(_)
TrimLeft(s) ==
    IF s # << >> /\ Head(s) = SP THEN TrimLeft(Tail(s)) ELSE s

RECURSIVE TrimRight(_)
TrimRight(s) ==
    IF s # << >> /\ Last(s) = SP
    THEN TrimRight(SubSeq(s, 1, Len(s) - 1))
    ELSE s

Trim(s) == TrimRight(TrimLeft(s))

---------------------------------------------------------------------------
(* The data model of the backend (spec.md section 3).                      *)

Users == { "alice", "bob", "carol" }

SourceTypes == { "document", "email", "calendar_event", "next_week_event" }

\* The records the record source can hold.  Embeddings are unit vectors, so
\* that cosine similarity is their dot product.  carol owns no record.
Universe ==
    { [ id |-> 1, user_id |-> "alice", source_type |-> "email",
        embedding |-> << 1, 0 >>, person |-> "john", day |-> 1, chars |-> 3 ],
      [ id |-> 2, user_id |-> "alice", source_type |-> "calendar_event",
        embedding |-> << 0, 1 >>, person |-> "mary", day |-> 2, chars |-> 2 ],
      [ id |-> 3, user_id |-> "alice", source_type |-> "document",
        embedding |-> << 1, 0 >>, person |-> "none", day |-> 1, chars |-> 5 ],
      [ id |-> 4, user_id |-> "bob", source_type |-> "email",
        embedding |-> << 1, 0 >>, person |-> "john", day |-> 1, chars |-> 2 ],
      [ id |-> 5, user_id |-> "bob", source_type |-> "email",
        embedding |-> << 0, 1 >>, person |-> "mary", day |-> 2, chars |-> 3 ] }

RecordsOf(records, user_id) == { r \in records : r.user_id = user_id }

\* QueryAnalysis: people, time_range (a set of days; {} is "no range") and
\* requested_types ({} is "no constraint").
EmptyAnalysis == [ people |-> {}, days |-> {}, requested_types |-> {} ]

---------------------------------------------------------------------------
(* The external collaborators (spec.md section 6), as what they return     *)
(* when they do not fail.                                                  *)

\* Embedder: embed(text) -> float[].  A black box; a fixed function of the
\* text.
EmbedOf(text) ==
    IF text = << "a" >> THEN << 1, 0 >>
    ELSE IF Len(text) = 1 THEN << -1, 0 >>
    ELSE << 0, 1 >>

\* The analysis the Query Analyzer extracts from a query text when its
\* language-model call succeeds.  A black box; a fixed function of the text.
AnalysisOf(text) ==
    IF text = << "a" >>
    THEN [ people |-> { "john" }, days |-> {}, requested_types |-> { "email" } ]
    ELSE IF Len(text) = 1
    THEN [ people |-> { "zed" }, days |-> { 9 }, requested_types |-> {} ]
    ELSE [ people |-> {}, days |-> { 1 }, requested_types |-> {} ]

\* The texts the language model may answer with.
ModelAnswers == { << "x" >>, << "y", Q, "z", Q >> }

\* The templated answers.
NoDataAnswer == << "n", "o" >>

NoRelevantInformationAnswer == << "n", "r" >>

---------------------------------------------------------------------------
(* 4.1 Retriever.                                                          *)

\* cosine similarity of two unit vectors
Similarity(u, v) == u[1] * v[1] + u[2] * v[2]

\* a faulty order: ties broken by descending id
RanksBeforeDescendingId(r, o, query_vector) ==
    LET sr == Similarity(query_vector, r.embedding)
        so == Similarity(query_vector, o.embedding)
    IN  sr > so \/ (sr = so /\ r.id >= o.id)

\* r goes before o: descending score, ties by ascending id
RanksBefore(r, o, query_vector) ==
    LET sr == Similarity(query_vector, r.embedding)
        so == Similarity(query_vector, o.embedding)
    IN  sr > so \/ (sr = so /\ r.id <= o.id)

RECURSIVE Rank(_, _)
Rank(S, query_vector) ==
    IF S = {} THEN << >>
    ELSE LET best == CHOOSE r \in S :
                         \A o \in S : RanksBefore(r, o, query_vector)
         IN  << [ record |-> best,
                  score |-> Similarity(query_vector, best.embedding) ] >>
             \o Rank(S \ { best }, query_vector)

\* a faulty scope: an empty scope falls back to every record
InScopeOrGlobal(records, user_id) ==
    IF RecordsOf(records, user_id) = {} THEN records
    ELSE RecordsOf(records, user_id)

\* the records the Retriever scores: those of the scope, and no other
InScope(records, user_id) == RecordsOf(records, user_id)

\* retrieve(query_vector, records, user_id, top_k) -> RetrievalResult
Retrieve(query_vector, records, user_id, top_k) ==
    LET ranked == Rank(InScope(records, user_id), query_vector)
    IN  SubSeq(ranked, 1, Min(top_k, Len(ranked)))

---------------------------------------------------------------------------
(* 4.2 Relevance Gate.                                                     *)

\* the floor the top similarity score must reach
SimilarityFloor == 1

\* is_relevant(query_text, retrieval_result): an empty result grounds
\* nothing; otherwise the top score must reach the floor and the pluggable
\* judgment (judged) must agree.
IsRelevant(retrieval_result, judged) ==
    /\ retrieval_result # << >>
    /\ retrieval_result[1].score >= SimilarityFloor
    /\ judged

---------------------------------------------------------------------------
(* 4.4 Context Filter/Formatter.                                           *)

Matches(r, analysis) ==
    /\ analysis.people = {} \/ r.person \in analysis.people
    /\ analysis.days = {} \/ r.day \in analysis.days
    /\ analysis.requested_types = {} \/ r.source_type \in analysis.requested_types

\* a faulty filter: no fallback
FilterRecordsStrict(retrieval_result, analysis) ==
    SelectSeq(retrieval_result, LAMBDA p : Matches(p.record, analysis))

\* the post-filter over the retrieval result, with the fallback to the
\* unfiltered top-K when it would eliminate every record
FilterRecords(retrieval_result, analysis) ==
    LET kept == SelectSeq(retrieval_result,
                          LAMBDA p : Matches(p.record, analysis))
    IN  IF kept = << >> THEN retrieval_result ELSE kept

\* a faulty formatter: the first record is never truncated
RECURSIVE FormatUntruncated(_, _, _)
FormatUntruncated(candidates, budget, taken) ==
    IF candidates = << >> THEN taken
    ELSE LET r == Head(candidates).record
         IN  IF r.chars <= budget \/ taken = << >>
             THEN FormatUntruncated(Tail(candidates), Max(budget - r.chars, 0),
                                    Append(taken,
                                           [ record |-> r, chars |-> r.chars ]))
             ELSE FormatUntruncated(Tail(candidates), budget, taken)

\* Serialises in rank order within budget characters: a record that fits is
\* taken whole, the first one is truncated to the budget when it alone
\* exceeds it, and a lower-ranked record that does not fit is dropped whole.
RECURSIVE Format(_, _, _)
Format(candidates, budget, taken) ==
    IF candidates = << >> THEN taken
    ELSE LET r == Head(candidates).record
         IN  IF r.chars <= budget
             THEN Format(Tail(candidates), budget - r.chars,
                         Append(taken, [ record |-> r, chars |-> r.chars ]))
             ELSE IF taken = << >>
             THEN Format(Tail(candidates), 0,
                         Append(taken, [ record |-> r, chars |-> budget ]))
             ELSE Format(Tail(candidates), budget, taken)

\* filter_and_format(retrieval_result, analysis, max_context_chars)
FilterAndFormat(retrieval_result, analysis, max_context_chars) ==
    Format(FilterRecords(retrieval_result, analysis), max_context_chars, << >>)

RECURSIVE ContextLength(_)
ContextLength(context) ==
    IF context = << >> THEN 0
    ELSE Head(context).chars + ContextLength(Tail(context))

\* the cited_records of the response: [{id, document_id, title, ...}]
CitedRecords(context) == [ i \in 1..Len(context) |-> context[i].record ]

---------------------------------------------------------------------------
(* 4.5 Answer Synthesizer and 4.6 Pipeline Orchestrator: the Query Session *)
(* and one action per stage of                                             *)
(*   Embed -> Retrieve -> Gate -> Analyze -> Filter/Format -> Synthesize   *)
(*         -> Respond.                                                     *)

\* the turns of conversation_history the Orchestrator keeps
HistoryTurns == 6

\* the last n elements of a sequence
LastN(s, n) == SubSeq(s, Max(Len(s) - n, 0) + 1, Len(s))

IdleSession ==
    [ stage |-> "idle", trace |-> << >>, query_text |-> << >>,
      user_id |-> "", conversation_history |-> << >>,
      query_vector |-> << 0, 0 >>, snapshot |-> {}, scored |-> {},
      retrieval_result |-> << >>, relevant |-> "unknown",
      analysis |-> EmptyAnalysis, failed |-> "none",
      degraded |-> FALSE, context |-> << >>, model_invoked |-> FALSE,
      outcome |-> "none", error |-> "none", answer_text |-> << >>,
      cited_records |-> << >> ]

\* the stage ran and hands over to stage next
Ran(s, name, next) ==
    [ s EXCEPT !.trace = Append(@, name), !.stage = next ]

\* a load-bearing stage failed: terminal, a typed error
Failed(s, name, kind) ==
    [ Ran(s, name, "respond") EXCEPT !.outcome = "error", !.error = kind,
                                     !.failed = name ]

\* a faulty response: only the records a long answer can mention are cited
AnsweredCitingByText(s, name, text, cited) ==
    [ Ran(s, name, "respond") EXCEPT
        !.outcome = "answer",
        !.answer_text = text,
        !.cited_records = IF Len(text) > 1 THEN cited ELSE << >> ]

\* the query ends with an answer
Answered(s, name, text, cited) ==
    [ Ran(s, name, "respond") EXCEPT !.outcome = "answer",
                                     !.answer_text = text,
                                     !.cited_records = cited ]

\* answer_query(query_text, user_id, conversation_history) is called with
\* what the request carries
StartSession(request) ==
    [ IdleSession EXCEPT
        !.stage = "embed",
        !.query_text = request.query,
        !.user_id = request.filter_by_user_id,
        !.conversation_history =
            LastN(request.conversation_history, HistoryTurns) ]

Accept ==
    /\ session.stage \in { "idle", "done" }
    /\ \E r \in inflight :
        /\ r.state = "sent"
        /\ session' = StartSession(r)
        /\ inflight' = (inflight \ { r }) \cup { [ r EXCEPT !.state = "accepted" ] }
    /\ UNCHANGED << clientVars, syncflight, db, store, loader, versions, config, docdb, log, probe >>

EmbedOk ==
    /\ session.stage = "embed"
    /\ session' = [ Ran(session, "embed", "retrieve") EXCEPT
                      !.query_vector = EmbedOf(session.query_text) ]
    /\ UNCHANGED << clientVars, inflight, syncflight, db, store, loader,
                    versions, config, docdb, log, probe >>

EmbedFail ==
    /\ session.stage = "embed"
    /\ session' = Failed(session, "embed", "EmbeddingError")
    /\ UNCHANGED << clientVars, inflight, syncflight, db, store, loader,
                    versions, config, docdb, log, probe >>

\* the state of the session after Retrieve read the store
Retrieved(s, records) ==
    [ Ran(s, "retrieve", "gate") EXCEPT
        !.snapshot = records,
        !.scored = InScope(records, s.user_id),
        !.retrieval_result =
            Retrieve(s.query_vector, records, s.user_id, config.top_k) ]

RetrieveOk ==
    /\ session.stage = "retrieve"
    /\ session' = Retrieved(session, store)
    /\ UNCHANGED << clientVars, inflight, syncflight, db, store, loader,
                    versions, config, docdb, log, probe >>

\* scoring fails; an empty scope is an empty result, never a failure
RetrieveFail ==
    /\ session.stage = "retrieve"
    /\ InScope(store, session.user_id) # {}
    /\ session' = [ Failed(session, "retrieve", "RetrievalError") EXCEPT
                      !.snapshot = store ]
    /\ UNCHANGED << clientVars, inflight, syncflight, db, store, loader,
                    versions, config, docdb, log, probe >>

\* a faulty gate: the verdict is recorded and the pipeline goes on
GatedThrough(s, relevant) ==
    [ Ran(s, "gate", "analyze") EXCEPT
        !.relevant = IF relevant THEN "yes" ELSE "no" ]

\* the session after the gate's verdict
Gated(s, relevant) ==
    IF relevant
    THEN [ Ran(s, "gate", "analyze") EXCEPT !.relevant = "yes" ]
    ELSE [ Answered(s, "gate", NoDataAnswer, << >>) EXCEPT !.relevant = "no" ]

Gate ==
    /\ session.stage = "gate"
    /\ \E judged \in BOOLEAN :
        session' = Gated(session, IsRelevant(session.retrieval_result, judged))
    /\ UNCHANGED << clientVars, inflight, syncflight, db, store, loader,
                    versions, config, docdb, log, probe >>

AnalyzeOk ==
    /\ session.stage = "analyze"
    /\ session' = [ Ran(session, "analyze", "filter") EXCEPT
                      !.analysis = AnalysisOf(session.query_text) ]
    /\ UNCHANGED << clientVars, inflight, syncflight, db, store, loader,
                    versions, config, docdb, log, probe >>

\* a faulty Analyzer stage: a failed analysis is run again
AnalyzeRetried(s) == Ran(s, "analyze", "analyze")

\* a faulty Analyzer stage: its failure ends the query
AnalyzePropagated(s) ==
    [ Failed(s, "analyze", "ModelError") EXCEPT !.degraded = TRUE ]

\* the state of the session after the Analyzer threw, timed out or
\* returned unparseable output: RetrievalDegraded is logged
AnalyzeDegraded(s) ==
    [ Ran(s, "analyze", "filter") EXCEPT
        !.analysis = EmptyAnalysis, !.degraded = TRUE ]

AnalyzeFail ==
    /\ session.stage = "analyze"
    /\ session' = AnalyzeDegraded(session)
    /\ UNCHANGED << clientVars, inflight, syncflight, db, store, loader,
                    versions, config, docdb, log, probe >>

FilterFormat ==
    /\ session.stage = "filter"
    /\ session' = [ Ran(session, "filter", "synthesize") EXCEPT
                      !.context = FilterAndFormat(session.retrieval_result,
                                                  session.analysis,
                                                  config.max_context_chars) ]
    /\ UNCHANGED << clientVars, inflight, syncflight, db, store, loader,
                    versions, config, docdb, log, probe >>

\* an empty context is answered from the template, without the model
\* a faulty Synthesizer: the model is asked whatever the context is
SynthesizeEmptyInvoking ==
    /\ session.stage = "synthesize"
    /\ ContextLength(session.context) = 0
    /\ \E text \in ModelAnswers :
        session' = [ Answered(session, "synthesize", text, << >>)
                     EXCEPT !.model_invoked = TRUE ]
    /\ UNCHANGED << clientVars, inflight, syncflight, db, store, loader,
                    versions, config, docdb, log, probe >>

\* the Synthesizer is handed an empty context: ContextEmptyError
SynthesizeEmpty ==
    /\ session.stage = "synthesize"
    /\ ContextLength(session.context) = 0
    /\ session' = Answered(session, "synthesize",
                           NoRelevantInformationAnswer, << >>)
    /\ UNCHANGED << clientVars, inflight, syncflight, db, store, loader,
                    versions, config, docdb, log, probe >>

SynthesizeOk ==
    /\ session.stage = "synthesize"
    /\ ContextLength(session.context) > 0
    /\ \E text \in ModelAnswers :
        session' = [ Answered(session, "synthesize", text,
                              CitedRecords(session.context))
                     EXCEPT !.model_invoked = TRUE ]
    /\ UNCHANGED << clientVars, inflight, syncflight, db, store, loader,
                    versions, config, docdb, log, probe >>

SynthesizeFail ==
    /\ session.stage = "synthesize"
    /\ ContextLength(session.context) > 0
    /\ session' = [ Failed(session, "synthesize", "ModelError")
                    EXCEPT !.model_invoked = TRUE ]
    /\ UNCHANGED << clientVars, inflight, syncflight, db, store, loader,
                    versions, config, docdb, log, probe >>

\* the HTTP response of POST /query for the session's outcome
QueryResponse(request, s) ==
    [ request EXCEPT
        !.state = "responded",
        !.status = IF s.outcome = "answer" THEN "ok" ELSE "error",
        !.answer = s.answer_text,
        !.documents = s.cited_records ]

\* the Respond stage: the response goes out to the caller
Responds ==
    /\ session.stage = "respond"
    /\ \E r \in inflight :
        /\ r.state = "accepted"
        /\ inflight' = (inflight \ { r }) \cup { QueryResponse(r, session) }
    /\ session' = Ran(session, "respond", "done")
    /\ UNCHANGED << clientVars, syncflight, db, store, loader, versions,
                    config, docdb, probe >>

Respond == Responds /\ UNCHANGED log

\* what an observer keeps of an execution of answer_query: its inputs, the
\* store it ran against, how its model calls went, and its response
Execution(s) ==
    [ query_text |-> s.query_text, user_id |-> s.user_id,
      conversation_history |-> s.conversation_history,
      store |-> store,
      relevant |-> s.relevant, degraded |-> s.degraded,
      outcome |-> s.outcome, answer_text |-> s.answer_text,
      cited_records |-> s.cited_records ]

\* the Respond stage, observed
RespondLogged == Responds /\ log' = Append(log, Execution(session))

---------------------------------------------------------------------------
(* POST load_user_data(user_id): the wholesale rebuild of the Record Store *)
(* for one user (spec.md sections 5 and 6).  The new store is built off    *)
(* to the side, record by record, and then published.                      *)

IdleLoader == [ phase |-> "idle", user_id |-> "", pending |-> {}, staging |-> {} ]

\* the rebuild starts from the other users' records and has the user's
\* rows of the record source still to index
StartRebuild(user_id) ==
    [ phase |-> "building", user_id |-> user_id,
      pending |-> RecordsOf(db, user_id),
      staging |-> store \ RecordsOf(store, user_id) ]

\* a faulty rebuild: the store is rebuilt in place
VisibleInPlace(published, l) == l.staging

\* the store the queries read while the loader l is at work
Visible(published, l) == published

LoadBegin ==
    /\ loader.phase = "idle"
    /\ \E s \in syncflight :
        /\ s.state = "sent"
        /\ loader' = StartRebuild(s.user_id)
        /\ syncflight' = (syncflight \ { s })
                            \cup { [ s EXCEPT !.state = "accepted" ] }
    /\ UNCHANGED << clientVars, inflight, db, store, versions, config, docdb, log, probe, session >>

LoadStep ==
    /\ loader.phase = "building"
    /\ \E r \in loader.pending :
        /\ loader' = [ loader EXCEPT !.pending = @ \ { r },
                                     !.staging = @ \cup { r } ]
        /\ store' = Visible(store, loader')
    /\ UNCHANGED << clientVars, inflight, syncflight, db, versions, config, docdb, log, probe,
                    session >>

LoadPublish ==
    /\ loader.phase = "building"
    /\ loader.pending = {}
    /\ store' = loader.staging
    /\ versions' = versions \cup { loader.staging }
    /\ loader' = IdleLoader
    /\ \E s \in syncflight :
        /\ s.state = "accepted"
        /\ syncflight' = (syncflight \ { s }) \cup
              { [ s EXCEPT !.state = "responded", !.status = "ok",
                           !.document_count =
                               Cardinality(RecordsOf(loader.staging, s.user_id)) ] }
    /\ UNCHANGED << clientVars, inflight, db, config, docdb, log, probe, session >>

\* the rebuild fails (the database, an embedding): nothing is published
LoadFail ==
    /\ loader.phase = "building"
    /\ loader' = IdleLoader
    /\ \E s \in syncflight :
        /\ s.state = "accepted"
        /\ syncflight' = (syncflight \ { s }) \cup
              { [ s EXCEPT !.state = "responded", !.status = "error" ] }
    /\ UNCHANGED << clientVars, inflight, db, store, versions, config, docdb, log, probe, session >>

\* the db-sync route upserts a row of the signed-in user into the record
\* source, or deleteDocument removes one
DbChange ==
    /\ \E r \in RecordsOf(Universe, userId) :
        /\ db' = IF r \in db THEN db \ { r } ELSE db \cup { r }
        /\ Cardinality(Universe \ db') <= MaxMissingRows
    /\ UNCHANGED << clientVars, inflight, syncflight, store, loader, versions,
                    config, docdb, log, probe, session >>

---------------------------------------------------------------------------
(* The Assistant component: src/app/components/Assistant.tsx.              *)

\* the window of messages.slice(-6)
HistoryWindow == 6

Message(role, content, documents, error) ==
    [ role |-> role, content |-> content, documents |-> documents,
      error |-> error ]

\* the initial state of messages
Greeting == Message("assistant", GreetingText, << >>, FALSE)

\* a faulty window: slice(n)
SliceFromStart(arr, n) == SubSeq(arr, Min(n, Len(arr)) + 1, Len(arr))

\* Array.prototype.slice(-n)
SliceFromEnd(arr, n) == SubSeq(arr, Max(Len(arr) - n, 0) + 1, Len(arr))

\* messages.slice(-6).map(msg => ({role: msg.role, content: msg.content}))
ConversationHistory(msgs) ==
    LET recent == SliceFromEnd(msgs, HistoryWindow)
    IN  [ i \in 1..Len(recent) |->
            [ role |-> recent[i].role, content |-> recent[i].content ] ]

\* a faulty scope: a fixed user id
ScopeOfDefaultUser(user) == "alice"

\* the user_id a request of the Assistant mounted for user carries
ScopeOf(user) == user

\* a fetch to /query with body {query, filter_by: {user_id}, conversation_history}
QueryRequest(kind, query, user, history) ==
    [ kind |-> kind, query |-> query, filter_by_user_id |-> ScopeOf(user),
      conversation_history |-> history,
      state |-> "sent", status |-> "none", answer |-> << >>,
      documents |-> << >> ]

\* the content of the error message of handleSubmit's catch
SubmitErrorContent(query) ==
    SubmitErrorPrefix \o << Q >> \o query \o << Q >> \o SubmitErrorSuffix

\* message.content.match(/"([^"]+)"/): << >> when there is no match, else
\* << match[1] >>.  The leftmost quote that is followed by at least one
\* character other than a quote and then by a quote.
QuotedMatch(content) ==
    LET quotes == { i \in 1..Len(content) : content[i] = Q }
        next(i) == CHOOSE j \in quotes :
                       j > i /\ \A k \in quotes : k > i => j <= k
        opens == { i \in quotes :
                     /\ \E j \in quotes : j > i
                     /\ next(i) > i + 1 }
    IN  IF opens = {} THEN << >>
        ELSE LET i == CHOOSE o \in opens : \A p \in opens : o <= p
             IN  << SubSeq(content, i + 1, next(i) - 1) >>

\* a faulty JSON.stringify of one message: the error flag is lost
StringifyMessageLosingFlag(msg) ==
    [ role |-> msg.role, content |-> msg.content, documents |-> msg.documents ]

\* JSON.stringify of one message: the error property is written when it is
\* true and left out when it is undefined
StringifyMessage(msg) ==
    IF msg.error
    THEN [ role |-> msg.role, content |-> msg.content,
           documents |-> msg.documents, error |-> TRUE ]
    ELSE [ role |-> msg.role, content |-> msg.content,
           documents |-> msg.documents ]

\* JSON.stringify(messages)
Stringify(msgs) == [ i \in 1..Len(msgs) |-> StringifyMessage(msgs[i]) ]

\* JSON.parse(savedMessages).map(msg => ({...msg, timestamp: ...})): a
\* message without an error property has an undefined, falsy, error
ParseMessages(text) ==
    [ i \in 1..Len(text) |->
        Message(text[i].role, text[i].content, text[i].documents,
                IF "error" \in DOMAIN text[i] THEN text[i].error ELSE FALSE) ]

\* localStorage.getItem of chat_history_<user>: << >> is null
GetChatHistory(storage, user) == storage.chat_history[user]

\* the save effect of a render with the message list msgs
SaveEffect(storage, user, msgs) ==
    IF user = "" \/ Len(msgs) <= 1
    THEN storage
    ELSE [ storage EXCEPT !.chat_history[user] = << Stringify(msgs) >> ]

\* a faulty removal: chat_history_<user> is kept
RemoveChatHistoryKept(storage, user) == storage

\* localStorage.removeItem of chat_history_<user>
RemoveChatHistory(storage, user) ==
    [ storage EXCEPT !.chat_history[user] = << >> ]

\* the mount effects: the stored conversation is loaded, the stored sync
\* status is read, and the save effect runs on the loaded messages
MountEffect ==
    /\ ~mounted
    /\ mounted' = TRUE
    /\ messages' = IF userId # "" /\ GetChatHistory(localStorage, userId) # << >>
                   THEN ParseMessages(GetChatHistory(localStorage, userId)[1])
                   ELSE messages
    /\ isRagSynced' = IF userId # "" /\ localStorage.rag_sync_status[userId] = "synced"
                      THEN TRUE ELSE isRagSynced
    /\ localStorage' = SaveEffect(localStorage, userId, messages')
    /\ UNCHANGED << userId, isLoading, isRagSyncing, retryingMessage,
                    inflight, syncflight, serverVars >>

\* the Assistant is unmounted and constructed anew (the tab is left and
\* entered again): its state is the initial state; a fetch of the old
\* instance that is still pending settles into an unmounted component
Remount ==
    /\ mounted
    /\ mounted' = FALSE
    /\ messages' = << Greeting >>
    /\ isLoading' = FALSE
    /\ isRagSynced' = FALSE
    /\ isRagSyncing' = FALSE
    /\ retryingMessage' = << >>
    /\ inflight' = {}
    /\ syncflight' = { [ s EXCEPT !.orphan = TRUE ] : s \in syncflight }
    /\ UNCHANGED << userId, localStorage, serverVars >>

\* a faulty update: the user message is put before the conversation
WithUserMessageFirst(msgs, content) ==
    << Message("user", content, << >>, FALSE) >> \o msgs

\* the message list after handleSubmit's setMessages(prev => [...prev, userMessage])
WithUserMessage(msgs, content) ==
    Append(msgs, Message("user", content, << >>, FALSE))

\* handleSubmit up to the fetch
HandleSubmit(inputValue) ==
    /\ mounted
    /\ ~(Trim(inputValue) = << >> \/ isLoading \/ ~isRagSynced)
    /\ messages' = WithUserMessage(messages, Trim(inputValue))
    /\ isLoading' = TRUE
    /\ inflight' = inflight \cup
          { QueryRequest("submit", Trim(inputValue), userId,
                         ConversationHistory(messages)) }
    /\ localStorage' = SaveEffect(localStorage, userId, messages')
    /\ UNCHANGED << userId, mounted, isRagSynced, isRagSyncing, retryingMessage,
                    syncflight, serverVars >>

\* a faulty catch: the error message is not flagged
SubmitReplyUnflagged(r) ==
    IF r.status = "ok"
    THEN Message("assistant", r.answer, r.documents, FALSE)
    ELSE Message("assistant", SubmitErrorContent(r.query), << >>, FALSE)

\* the message handleSubmit appends when its fetch has settled
SubmitReply(r) ==
    IF r.status = "ok"
    THEN Message("assistant", r.answer, r.documents, FALSE)
    ELSE Message("assistant", SubmitErrorContent(r.query), << >>, TRUE)

\* handleSubmit from the response on: try, catch and finally
SubmitSettles ==
    /\ \E r \in inflight :
        /\ r.kind = "submit"
        /\ r.state = "responded"
        /\ messages' = Append(messages, SubmitReply(r))
        /\ inflight' = inflight \ { r }
    /\ isLoading' = FALSE
    /\ localStorage' = SaveEffect(localStorage, userId, messages')
    /\ UNCHANGED << userId, mounted, isRagSynced, isRagSyncing, retryingMessage,
                    syncflight, serverVars >>

\* what a click on the Retry button of message sends: << >> when the click
\* does nothing, else << the query text >>
RetryTarget(message) ==
    IF message.role = "assistant" /\ message.error
    THEN QuotedMatch(message.content)
    ELSE << >>

\* a faulty retryMessage: the button is never disabled and the handler
\* does not look at isLoading
RetryMessageWhileLoading ==
    /\ mounted
    /\ isRagSynced
    /\ \E i \in 1..Len(messages) :
        /\ RetryTarget(messages[i]) # << >>
        /\ retryingMessage' = RetryTarget(messages[i])
        /\ inflight' = inflight \cup
              { QueryRequest("retry", RetryTarget(messages[i])[1], userId, << >>) }
    /\ isLoading' = TRUE
    /\ UNCHANGED << userId, mounted, messages, isRagSynced, isRagSyncing,
                    localStorage, syncflight, serverVars >>

\* the Retry button's onClick and retryMessage up to the fetch
RetryMessage ==
    /\ mounted
    /\ ~(isLoading \/ retryingMessage # << >>)
    /\ ~(isLoading \/ ~isRagSynced)
    /\ \E i \in 1..Len(messages) :
        /\ RetryTarget(messages[i]) # << >>
        /\ retryingMessage' = RetryTarget(messages[i])
        /\ inflight' = inflight \cup
              { QueryRequest("retry", RetryTarget(messages[i])[1], userId, << >>) }
    /\ isLoading' = TRUE
    /\ UNCHANGED << userId, mounted, messages, isRagSynced, isRagSyncing,
                    localStorage, syncflight, serverVars >>

\* the message list after a retry of messageContent was answered
AfterRetry(msgs, messageContent, r) ==
    Append(SelectSeq(msgs,
               LAMBDA msg : ~(/\ msg.role = "assistant"
                              /\ Includes(msg.content, ErrorPhrase)
                              /\ Includes(msg.content, messageContent))),
           Message("assistant", r.answer, r.documents, FALSE))

\* retryMessage from the response on
RetrySettles ==
    /\ \E r \in inflight :
        /\ r.kind = "retry"
        /\ r.state = "responded"
        /\ messages' = IF r.status = "ok"
                       THEN AfterRetry(messages, r.query, r)
                       ELSE messages
        /\ inflight' = inflight \ { r }
    /\ isLoading' = FALSE
    /\ retryingMessage' = << >>
    /\ localStorage' = SaveEffect(localStorage, userId, messages')
    /\ UNCHANGED << userId, mounted, isRagSynced, isRagSyncing,
                    syncflight, serverVars >>

\* a fetch to /load_user_data with body {user_id}
SyncRequest(user) ==
    [ user_id |-> user, state |-> "sent", status |-> "none",
      document_count |-> 0, orphan |-> FALSE ]

\* handleRagSync up to the fetch
HandleRagSync ==
    /\ mounted
    /\ ~(userId = "" \/ isRagSyncing)
    /\ isRagSyncing' = TRUE
    /\ syncflight' = syncflight \cup { SyncRequest(userId) }
    /\ UNCHANGED << userId, mounted, messages, isLoading, isRagSynced,
                    retryingMessage, localStorage, inflight, serverVars >>

\* a faulty check of the response: a failed sync passes for a success
SyncSucceededAlways(s) == TRUE

\* whether the try block of handleRagSync runs to its end: the fetch
\* resolved and response.ok holds
SyncSucceeded(s) == s.status = "ok"

\* localStorage.setItem of rag_sync_status_<user>
SetSynced(storage, user) ==
    [ storage EXCEPT !.rag_sync_status[user] = "synced" ]

\* handleRagSync from the response on
RagSyncSettles ==
    /\ \E s \in syncflight :
        /\ s.state = "responded"
        /\ ~s.orphan
        /\ syncflight' = syncflight \ { s }
        /\ IF SyncSucceeded(s)
           THEN /\ isRagSynced' = TRUE
                /\ messages' = Append(messages,
                       Message("assistant", SyncOkText, << >>, FALSE))
                /\ localStorage' =
                       SaveEffect(SetSynced(localStorage, s.user_id),
                                  userId, messages')
           ELSE /\ messages' = Append(messages,
                       Message("assistant", SyncErrorText, << >>, TRUE))
                /\ localStorage' = SaveEffect(localStorage, userId, messages')
                /\ UNCHANGED isRagSynced
    /\ isRagSyncing' = FALSE
    /\ UNCHANGED << userId, mounted, isLoading, retryingMessage, inflight,
                    serverVars >>

\* handleRagSync from the response on, in an instance that was unmounted
\* meanwhile: the state setters do nothing, localStorage is written
OrphanSyncSettles ==
    /\ \E s \in syncflight :
        /\ s.state = "responded"
        /\ s.orphan
        /\ syncflight' = syncflight \ { s }
        /\ localStorage' = IF SyncSucceeded(s)
                           THEN SetSynced(localStorage, s.user_id)
                           ELSE localStorage
    /\ UNCHANGED << userId, mounted, messages, isLoading, isRagSynced,
                    isRagSyncing, retryingMessage, inflight, serverVars >>

\* handleClearConversation, confirmed
HandleClearConversation ==
    /\ mounted
    /\ messages' = << Greeting >>
    /\ localStorage' =
          SaveEffect(IF userId # "" THEN RemoveChatHistory(localStorage, userId)
                                    ELSE localStorage,
                     userId, messages')
    /\ UNCHANGED << userId, mounted, isLoading, isRagSynced, isRagSyncing,
                    retryingMessage, inflight, syncflight, serverVars >>

\* a fetch that cannot reach the backend rejects
QueryFetchRejects ==
    /\ \E r \in inflight :
        /\ r.state = "sent"
        /\ inflight' = (inflight \ { r }) \cup
              { [ r EXCEPT !.state = "responded", !.status = "network" ] }
    /\ UNCHANGED << clientVars, syncflight, serverVars >>

\* a fetch whose request the network or the backend swallows: the promise
\* of fetch stays pending, and nothing in handleSubmit or retryMessage
\* aborts it
QueryFetchHangs ==
    /\ \E r \in inflight :
        /\ r.state = "sent"
        /\ inflight' = (inflight \ { r }) \cup { [ r EXCEPT !.state = "pending" ] }
    /\ UNCHANGED << clientVars, syncflight, serverVars >>

SyncFetchRejects ==
    /\ \E s \in syncflight :
        /\ s.state = "sent"
        /\ syncflight' = (syncflight \ { s }) \cup
              { [ s EXCEPT !.state = "responded", !.status = "network" ] }
    /\ UNCHANGED << clientVars, inflight, serverVars >>

---------------------------------------------------------------------------
(* The backend as the client sees it: response.ok, data.answer and         *)
(* data.documents of any response (Assistant.tsx:350-362, 278-282).        *)

BackendReplies ==
    /\ \E r \in inflight :
        /\ r.state = "sent"
        /\ \E reply \in { [ status |-> "ok", answer |-> << "x" >>,
                            documents |-> << CHOOSE u \in Universe : u.id = 1 >> ],
                          [ status |-> "error", answer |-> << >>,
                            documents |-> << >> ] } :
            inflight' = (inflight \ { r }) \cup
                { [ r EXCEPT !.state = "responded", !.status = reply.status,
                             !.answer = reply.answer,
                             !.documents = reply.documents ] }
    /\ UNCHANGED << clientVars, syncflight, serverVars >>

BackendSyncReplies ==
    /\ \E s \in syncflight :
        /\ s.state = "sent"
        /\ \E status \in { "ok", "error" } :
            syncflight' = (syncflight \ { s }) \cup
                { [ s EXCEPT !.state = "responded", !.status = status ] }
    /\ UNCHANGED << clientVars, inflight, serverVars >>

---------------------------------------------------------------------------
(* Specifications.                                                         *)

\* no function is called on its own
NoProbe == [ op |-> "none" ]

\* the knowledge-base tables before any upload
NoDocuments == [ documents |-> {}, document_pages |-> {}, next_id |-> 1 ]

\* the Assistant right after construction (Assistant.tsx:53-70), for a
\* signed-in user whose sync status may be stored from an earlier visit
ClientInit ==
    /\ userId \in Users
    /\ mounted = FALSE
    /\ messages = << Greeting >>
    /\ isLoading = FALSE
    /\ isRagSynced = FALSE
    /\ isRagSyncing = FALSE
    /\ retryingMessage = << >>
    /\ \E status \in { "none", "synced" } :
        localStorage =
            [ rag_sync_status |->
                  [ u \in Users |-> IF u = userId THEN status ELSE "none" ],
              chat_history |-> [ u \in Users |-> << >> ] ]
    /\ inflight = {}
    /\ syncflight = {}

\* the backend after startup: the store holds the record source, or only
\* the rows of DEFAULT_USER_ID when one is set (agent/README.md:65-69)
ServerInit ==
    /\ db = Universe
    /\ store \in { db } \cup { RecordsOf(db, u) : u \in Users }
    /\ loader = IdleLoader
    /\ versions = { store }
    /\ config \in [ top_k : 1..MaxTopK,
                    max_context_chars : { 0, MaxContextChars } ]
    /\ session = IdleSession
    /\ log = << >>
    /\ probe = NoProbe
    /\ docdb = NoDocuments

Init == ClientInit /\ ServerInit

Pipeline ==
    \/ Accept
    \/ EmbedOk
    \/ EmbedFail
    \/ RetrieveOk
    \/ RetrieveFail
    \/ Gate
    \/ AnalyzeOk
    \/ AnalyzeFail
    \/ FilterFormat
    \/ SynthesizeEmpty
    \/ SynthesizeOk
    \/ SynthesizeFail
    \/ Respond

Loader ==
    \/ LoadBegin
    \/ LoadStep
    \/ LoadPublish
    \/ LoadFail

\* the user starts a query while the conversation is shorter than bound
\* and a sync while it is shorter than syncBound
UserActs(bound, syncBound, inputs) ==
    \/ MountEffect
    \/ (Len(messages) < bound /\ \E inputValue \in inputs : HandleSubmit(inputValue))
    \/ (Len(messages) <= bound /\ RetryMessage)
    \/ (Len(messages) < syncBound /\ HandleRagSync)

Settles ==
    \/ SubmitSettles
    \/ RetrySettles
    \/ RagSyncSettles

\* The Assistant and the query pipeline, end to end, over a store that no
\* rebuild changes.
Next ==
    \/ UserActs(MaxE2EMsgs, MaxE2EMsgs, Inputs)
    \/ Settles
    \/ QueryFetchRejects
    \/ SyncFetchRejects
    \/ BackendSyncReplies
    \/ Pipeline

Spec == Init /\ [][Next]_vars

\* The Assistant of one user against any backend: long conversations.
ClientSpecInit ==
    /\ ClientInit
    /\ userId = "alice"
    /\ db = Universe
    /\ store = db
    /\ loader = IdleLoader
    /\ versions = { store }
    /\ config = [ top_k |-> MaxTopK, max_context_chars |-> MaxContextChars ]
    /\ session = IdleSession
    /\ log = << >>
    /\ probe = NoProbe
    /\ docdb = NoDocuments

ClientNext ==
    \/ UserActs(MaxMsgs, MaxSyncMsgs, FewInputs)
    \/ HandleClearConversation
    \/ Settles
    \/ QueryFetchRejects
    \/ SyncFetchRejects
    \/ BackendReplies
    \/ BackendSyncReplies

SpecClient == ClientSpecInit /\ [][ClientNext]_vars

\* The Assistant of one user against any backend, left and entered again
\* at any moment: what the conversation leaves in localStorage.
HistoryNext ==
    \/ UserActs(MaxHistoryMsgs, MaxSyncMsgs + 1, { << "a" >> })
    \/ HandleClearConversation
    \/ Remount
    \/ Settles
    \/ OrphanSyncSettles
    \/ BackendReplies
    \/ BackendSyncReplies

SpecHistory == ClientSpecInit /\ [][HistoryNext]_vars

\* The Assistant, the query pipeline and load_user_data together: a sync
\* may start while a query is in flight and a query while a sync is.
SwapInit ==
    /\ ClientInit
    /\ userId = "alice"
    /\ db = Universe
    /\ store = db
    /\ loader = IdleLoader
    /\ versions = { store }
    /\ config \in [ top_k : { MaxTopK },
                    max_context_chars : { 0, MaxContextChars } ]
    /\ session = IdleSession
    /\ log = << >>
    /\ probe = NoProbe
    /\ docdb = NoDocuments

SwapNext ==
    \/ MountEffect
    \/ (Len(messages) < MaxSwapMsgs /\ HandleSubmit(<< "a" >>))
    \/ (Len(messages) < MaxSwapMsgs /\ HandleRagSync)
    \/ SubmitSettles
    \/ RagSyncSettles
    \/ Pipeline
    \/ Loader
    \/ DbChange

SpecSwap == SwapInit /\ [][SwapNext]_vars

\* an Assistant and a backend at rest, beside a function called on its own
AtRest ==
    /\ ClientInit
    /\ userId = "alice"
    /\ localStorage.rag_sync_status[userId] = "none"
    /\ db = Universe
    /\ store = db
    /\ loader = IdleLoader
    /\ versions = { store }
    /\ config = [ top_k |-> MaxTopK, max_context_chars |-> MaxContextChars ]
    /\ session = IdleSession
    /\ log = << >>

restVars ==
    << clientVars, inflight, syncflight, db, store, loader, versions, config,
       session, log >>

\* filter_and_format touches no table
FormatRest == /\ AtRest
              /\ docdb = NoDocuments

\* the retrieval results the Retriever can hand on
RetrievalResults ==
    { Retrieve(EmbedOf(text), records, user_id, top_k) :
        text \in Inputs, records \in SUBSET Universe, user_id \in Users,
        top_k \in 1..MaxTopK }

\* the analyses the Analyzer can hand on
Analyses == { EmptyAnalysis } \cup { AnalysisOf(text) : text \in Inputs }

\* filter_and_format on its own, over every retrieval result, analysis and
\* max_context_chars
FormatInit ==
    /\ FormatRest
    /\ \E rr \in RetrievalResults, a \in Analyses, m \in 0..MaxContextChars :
        probe = [ op |-> "filter_and_format", retrieval_result |-> rr,
                  analysis |-> a, max_context_chars |-> m,
                  called |-> FALSE, context |-> << >> ]

CallFilterAndFormat ==
    /\ probe.op = "filter_and_format"
    /\ ~probe.called
    /\ probe' = [ probe EXCEPT
                    !.called = TRUE,
                    !.context = FilterAndFormat(probe.retrieval_result,
                                                probe.analysis,
                                                probe.max_context_chars) ]
    /\ UNCHANGED << restVars, docdb >>

SpecFormat == FormatInit /\ [][CallFilterAndFormat]_vars

\* The Assistant and the query pipeline over an unchanged store, with the
\* executions of answer_query observed: the user repeats queries, by a
\* retry or after clearing the conversation.
RepeatInit ==
    /\ ClientInit
    /\ userId = "alice"
    /\ localStorage.rag_sync_status[userId] = "synced"
    /\ db = Universe
    /\ store = db
    /\ loader = IdleLoader
    /\ versions = { store }
    /\ config \in [ top_k : { MaxTopK },
                    max_context_chars : { 0, MaxContextChars } ]
    /\ session = IdleSession
    /\ log = << >>
    /\ probe = NoProbe
    /\ docdb = NoDocuments

PipelineLogged ==
    \/ Accept
    \/ EmbedOk
    \/ EmbedFail
    \/ RetrieveOk
    \/ RetrieveFail
    \/ Gate
    \/ AnalyzeOk
    \/ AnalyzeFail
    \/ FilterFormat
    \/ SynthesizeEmpty
    \/ SynthesizeOk
    \/ SynthesizeFail
    \/ RespondLogged

RepeatNext ==
    \/ MountEffect
    \/ (Len(log) < MaxRuns /\
          \E inputValue \in { << "a" >>, << "a", Q, "b" >> } :
              HandleSubmit(inputValue))
    \/ (Len(log) < MaxRuns /\ RetryMessage)
    \/ HandleClearConversation
    \/ SubmitSettles
    \/ RetrySettles
    \/ PipelineLogged

SpecRepeat == RepeatInit /\ [][RepeatNext]_vars

\* The Assistant and the query pipeline under the scheduling they have: the
\* browser runs every continuation whose fetch has settled, and the
\* Orchestrator bounds every stage by a timeout, so a stage that can run
\* does run, to success or to failure.  Nothing bounds the fetch itself.
LiveNext ==
    \/ MountEffect
    \/ (Len(messages) < MaxE2EMsgs /\ HandleSubmit(<< "a" >>))
    \/ (Len(messages) <= MaxE2EMsgs /\ RetryMessage)
    \/ SubmitSettles
    \/ RetrySettles
    \/ QueryFetchRejects
    \/ QueryFetchHangs
    \/ Pipeline

SpecLive ==
    /\ RepeatInit
    /\ [][LiveNext]_vars
    /\ WF_vars(SubmitSettles)
    /\ WF_vars(RetrySettles)
    /\ WF_vars(Pipeline)

---------------------------------------------------------------------------
(* The document API: src/app/api/embed/route.ts (the documents and pdf     *)
(* routes) over src/app/utils/neondb.ts.                                   *)

\* the users that call the API
Callers == { "alice", "bob" }

\* the value of the id and userId parameters of a request: << >> when the
\* parameter is missing or empty
IdParams == { << >>, << "1" >>, << "2" >>, << "3" >>, << "x" >>, << "2", "x" >> }

UserIdParams == { << >> } \cup { << u >> : u \in Callers }

DigitValue(c) ==
    CASE c = "0" -> 0 [] c = "1" -> 1 [] c = "2" -> 2 [] c = "3" -> 3
      [] c = "4" -> 4 [] c = "5" -> 5 [] c = "6" -> 6 [] c = "7" -> 7
      [] c = "8" -> 8 [] c = "9" -> 9 [] OTHER -> -1

\* the digits a text begins with, as a number
RECURSIVE LeadingDigits(_, _)
LeadingDigits(text, acc) ==
    IF text = << >> \/ DigitValue(Head(text)) < 0 THEN acc
    ELSE LeadingDigits(Tail(text), 10 * acc + DigitValue(Head(text)))

\* NaN
NaN == -1

\* parseInt(text): the number the text begins with, NaN when it begins
\* with none
ParseInt(text) ==
    IF text = << >> \/ DigitValue(Head(text)) < 0 THEN NaN
    ELSE LeadingDigits(text, 0)

\* the tables after deleteDocument(docId) has committed
DeleteDocument(tables, docId) ==
    [ tables EXCEPT
        !.document_pages = { pg \in @ : pg.document_id # docId },
        !.documents = { d \in @ : d.id # docId } ]

\* getDocumentsByUserId(userId): SELECT * FROM documents WHERE user_id = $1
GetDocumentsByUserId(tables, user) ==
    { d \in tables.documents : d.user_id = user }

\* the tables after insertDocument(document): the id is the next of the
\* serial
InsertDocument(tables, user) ==
    [ tables EXCEPT
        !.documents = @ \cup { [ id |-> tables.next_id, user_id |-> user ] },
        !.next_id = @ + 1 ]

\* the tables after insertDocumentPage(page)
InsertDocumentPage(tables, document_id, user) ==
    [ tables EXCEPT
        !.document_pages =
            @ \cup { [ document_id |-> document_id, user_id |-> user ] } ]

\* a request and its response, as the caller sees them
Exchange(op, caller, status, documents) ==
    [ op |-> op, caller |-> caller, status |-> status,
      documents |-> documents ]

\* DELETE /api/documents?id=
DocumentsDELETE ==
    \E caller \in Callers, docId \in IdParams :
        /\ IF docId = << >>
           THEN /\ probe' = Exchange("DELETE", caller, 400, {})
                /\ UNCHANGED docdb
           ELSE IF ParseInt(docId) = NaN
           THEN /\ probe' = Exchange("DELETE", caller, 500, {})
                /\ UNCHANGED docdb
           ELSE \/ /\ docdb' = DeleteDocument(docdb, ParseInt(docId))
                   /\ probe' = Exchange("DELETE", caller, 200, {})
                \/ /\ probe' = Exchange("DELETE", caller, 500, {})
                   /\ UNCHANGED docdb
        /\ UNCHANGED << restVars >>

\* GET /api/documents?userId=
DocumentsGET ==
    \E caller \in Callers, param \in UserIdParams :
        /\ IF param = << >>
           THEN probe' = Exchange("GET", caller, 400, {})
           ELSE \/ probe' = Exchange("GET", caller, 200,
                                     GetDocumentsByUserId(docdb, param[1]))
                \/ probe' = Exchange("GET", caller, 500, {})
        /\ UNCHANGED << restVars, docdb >>

\* the text is an integer literal the database accepts for documents.id
IsIntegerText(text) ==
    text # << >> /\ \A i \in 1..Len(text) : DigitValue(text[i]) >= 0

\* GET /api/pdf/[id]: SELECT * FROM documents WHERE id = $1 with the text
\* of the path segment; the file itself is not served
PdfGET ==
    \E caller \in Callers, id \in IdParams \ { << >> } :
        /\ IF ~IsIntegerText(id)
           THEN probe' = Exchange("GET_PDF", caller, 500, {})
           ELSE IF \E d \in docdb.documents : d.id = LeadingDigits(id, 0)
           THEN probe' = Exchange("GET_PDF", caller, 501, {})
           ELSE probe' = Exchange("GET_PDF", caller, 404, {})
        /\ UNCHANGED << restVars, docdb >>

\* POST /api/documents {action: 'insertDocument', document}
DocumentsPOSTDocument ==
    \E caller \in Callers :
        /\ docdb.next_id <= MaxDocId
        /\ docdb' = InsertDocument(docdb, caller)
        /\ probe' = Exchange("POST", caller, 200, {})
        /\ UNCHANGED << restVars >>

\* POST /api/documents {action: 'insertPage', page}
DocumentsPOSTPage ==
    \E caller \in Callers, d \in docdb.documents :
        /\ d.user_id = caller
        /\ docdb' = InsertDocumentPage(docdb, d.id, caller)
        /\ probe' = Exchange("POST", caller, 200, {})
        /\ UNCHANGED << restVars >>

DocsInit ==
    /\ AtRest
    /\ docdb = NoDocuments
    /\ probe = NoProbe

DocsNext ==
    \/ DocumentsDELETE
    \/ DocumentsGET
    \/ PdfGET
    \/ DocumentsPOSTDocument
    \/ DocumentsPOSTPage

SpecDocs == DocsInit /\ [][DocsNext]_vars

---------------------------------------------------------------------------
(* The db-sync route: src/app/api/db-sync/route.ts.  A JavaScript value is *)
(* a record of its type t and its content v, a sequence of characters or   *)
(* of elements; the members of a nested object are fields of their own     *)
(* (from_emailAddress_name is from.emailAddress.name).                     *)

Undefined == [ t |-> "undefined", v |-> << >> ]

Null == [ t |-> "null", v |-> << >> ]

Str(text) == [ t |-> "string", v |-> text ]

Arr(elements) == [ t |-> "array", v |-> elements ]

Bool(b) == [ t |-> "boolean", v |-> IF b THEN << "t" >> ELSE << "f" >> ]

Obj == [ t |-> "object", v |-> << >> ]

\* the truthiness of a value
Truthy(x) ==
    CASE x.t \in { "undefined", "null" } -> FALSE
      [] x.t = "string" -> x.v # << >>
      [] x.t = "boolean" -> x.v = << "t" >>
      [] OTHER -> TRUE

\* x || d
OrElse(x, d) == IF Truthy(x) THEN x ELSE d

\* parent?.member: undefined unless parent is an object
Member(parent, member) == IF parent.t = "object" THEN member ELSE Undefined

\* Array.isArray(x) ? x : []
ArrayOrEmpty(x) == IF x.t = "array" THEN x ELSE Arr(<< >>)

\* !!x
NotNot(x) == Bool(Truthy(x))

\* new Date().toISOString()
NowText == Str(<< "n", "o", "w" >>)

\* `unknown-${Date.now()}-${Math.random()}`: one of the ids it can give
GeneratedIds == { Str(<< "u", "1" >>), Str(<< "u", "2" >>) }

\* a faulty row: the item's own user_id wins
EmailRowTrustingItem(email, user, generated) ==
    [ user_id |-> OrElse(email.user_id, user),
      mail_id |-> OrElse(email.id, generated),
      subject |-> OrElse(email.subject, Str(<< "N", "S" >>)),
      from_name |->
          OrElse(Member(Member(email.from, email.from_emailAddress),
                        email.from_emailAddress_name), Str(<< "U" >>)),
      from_email |->
          OrElse(Member(Member(email.from, email.from_emailAddress),
                        email.from_emailAddress_address), Str(<< "u", "@" >>)),
      received_datetime |-> OrElse(email.receivedDateTime, NowText),
      body_preview |-> OrElse(email.bodyPreview, Str(<< >>)),
      is_read |-> NotNot(email.isRead),
      to_recipients |-> email.toRecipients,
      cc_recipients |-> ArrayOrEmpty(email.ccRecipients) ]

\* the row the emails branch makes of an item (route.ts:20-41)
EmailRow(email, user, generated) ==
    [ user_id |-> user,
      mail_id |-> OrElse(email.id, generated),
      subject |-> OrElse(email.subject, Str(<< "N", "S" >>)),
      from_name |->
          OrElse(Member(Member(email.from, email.from_emailAddress),
                        email.from_emailAddress_name), Str(<< "U" >>)),
      from_email |->
          OrElse(Member(Member(email.from, email.from_emailAddress),
                        email.from_emailAddress_address), Str(<< "u", "@" >>)),
      received_datetime |-> OrElse(email.receivedDateTime, NowText),
      body_preview |-> OrElse(email.bodyPreview, Str(<< >>)),
      is_read |-> NotNot(email.isRead),
      to_recipients |-> ArrayOrEmpty(email.toRecipients),
      cc_recipients |-> ArrayOrEmpty(email.ccRecipients) ]

\* the row the events branch makes of an item (route.ts:47-66)
EventRow(event, user, generated) ==
    [ user_id |-> user,
      event_id |-> OrElse(event.id, generated),
      subject |-> OrElse(event.subject, Str(<< "N", "S" >>)),
      body_preview |-> OrElse(event.bodyPreview, Str(<< >>)),
      start_datetime |->
          OrElse(Member(event.start, event.start_dateTime), NowText),
      end_datetime |->
          OrElse(Member(event.end, event.end_dateTime), NowText),
      start_timezone |->
          OrElse(Member(event.start, event.start_timeZone),
                 Str(<< "U", "T", "C" >>)),
      end_timezone |->
          OrElse(Member(event.end, event.end_timeZone),
                 Str(<< "U", "T", "C" >>)),
      attendees |-> ArrayOrEmpty(event.attendees) ]

\* the shapes of the member from (or start, end) of an item: missing, null,
\* not an object, an object without members, an object with members
EmailItems ==
    { [ id |-> id, subject |-> subject, from |-> from[1],
        from_emailAddress |-> from[2], from_emailAddress_name |-> from[3],
        from_emailAddress_address |-> from[4],
        receivedDateTime |-> received, bodyPreview |-> Undefined,
        isRead |-> isRead, toRecipients |-> to, ccRecipients |-> cc,
        user_id |-> own ] :
        id \in { Undefined, Str(<< "m" >>) },
        subject \in { Undefined, Str(<< >>), Str(<< "s" >>) },
        from \in { << Undefined, Undefined, Undefined, Undefined >>,
                   << Null, Undefined, Undefined, Undefined >>,
                   << Str(<< "x" >>), Undefined, Undefined, Undefined >>,
                   << Obj, Null, Undefined, Undefined >>,
                   << Obj, Obj, Undefined, Str(<< "a", "@" >>) >>,
                   << Obj, Obj, Str(<< "j" >>), Str(<< "a", "@" >>) >> },
        received \in { Undefined, Str(<< "d" >>) },
        isRead \in { Undefined, Bool(TRUE), Bool(FALSE) },
        to \in { Undefined, Null, Str(<< "x" >>), Arr(<< "r" >>) },
        cc \in { Undefined, Arr(<< >>) },
        own \in { Undefined, Str(<< "m", "a", "l" >>) } }

EventItems ==
    { [ id |-> id, subject |-> subject, bodyPreview |-> body,
        start |-> start[1], start_dateTime |-> start[2],
        start_timeZone |-> start[3],
        end |-> end[1], end_dateTime |-> end[2], end_timeZone |-> end[3],
        attendees |-> attendees, user_id |-> own ] :
        id \in { Undefined, Str(<< "e" >>) },
        subject \in { Null, Str(<< "s" >>) },
        body \in { Undefined, Str(<< "b" >>) },
        start \in { << Undefined, Undefined, Undefined >>,
                    << Null, Undefined, Undefined >>,
                    << Obj, Undefined, Undefined >>,
                    << Obj, Str(<< "d" >>), Undefined >>,
                    << Obj, Str(<< "d" >>), Str(<< "z" >>) >> },
        end \in { << Undefined, Undefined, Undefined >>,
                  << Obj, Str(<< "d" >>), Null >>,
                  << Obj, Str(<< "d" >>), Str(<< "z" >>) >> },
        attendees \in { Undefined, Null, Obj, Arr(<< "r" >>) },
        own \in { Undefined, Str(<< "m", "a", "l" >>) } }

\* the userId of a request: a signed-in user, or nothing
SyncUserIds == { Str(<< "a", "l" >>), Str(<< >>), Undefined }

\* a request to POST /api/db-sync with one item, not yet handled
SyncCall(type, item, user) ==
    [ op |-> "db-sync", type |-> type, data |-> << item >>, userId |-> user,
      called |-> FALSE, status |-> 0, rows |-> << >> ]

SyncInit ==
    /\ AtRest
    /\ docdb = NoDocuments
    /\ \/ \E item \in EmailItems, user \in SyncUserIds :
            probe = SyncCall("emails", item, user)
       \/ \E item \in EventItems, user \in SyncUserIds,
              type \in { "events", "other", "" } :
            probe = SyncCall(type, item, user)

\* POST /api/db-sync up to the call of the upsert
DbSyncPOST ==
    /\ probe.op = "db-sync"
    /\ ~probe.called
    /\ IF probe.type = "" \/ ~Truthy(probe.userId)
       THEN probe' = [ probe EXCEPT !.called = TRUE, !.status = 400 ]
       ELSE IF probe.type = "emails"
       THEN \E generated \in GeneratedIds :
               probe' = [ probe EXCEPT
                   !.called = TRUE, !.status = 200,
                   !.rows = [ i \in 1..Len(probe.data) |->
                                EmailRow(probe.data[i], probe.userId,
                                         generated) ] ]
       ELSE IF probe.type = "events"
       THEN \E generated \in GeneratedIds :
               probe' = [ probe EXCEPT
                   !.called = TRUE, !.status = 200,
                   !.rows = [ i \in 1..Len(probe.data) |->
                                EventRow(probe.data[i], probe.userId,
                                         generated) ] ]
       ELSE probe' = [ probe EXCEPT !.called = TRUE, !.status = 400 ]
    /\ UNCHANGED << restVars, docdb >>

SpecSync == SyncInit /\ [][DbSyncPOST]_vars

---------------------------------------------------------------------------
(* Claims about the query pipeline, checked under Spec.                    *)

\* the query of the session has ended: its outcome is fixed
Ended == session.stage \in { "respond", "done" }

\* the records of a sequence of (record, ...) pairs
RecordsIn(pairs) == { pairs[i].record : i \in 1..Len(pairs) }

ScopeEmpty == RecordsOf(store, session.user_id) = {}

C3_GateShortCircuit ==
    session.relevant = "no" =>
        /\ Range(session.trace) \cap { "analyze", "filter", "synthesize" } = {}
        /\ ~session.model_invoked
        /\ Ended
        /\ session.outcome = "answer"
        /\ session.answer_text = NoDataAnswer
        /\ session.cited_records = << >>
        /\ \A q \in inflight :
               q.state = "responded" /\ q.status = "ok" =>
                   q.answer = NoDataAnswer /\ q.documents = << >>

\* the gate rejected a non-empty retrieval result and the response went out
C3_Witness ==
    /\ session.relevant = "no"
    /\ session.retrieval_result # << >>
    /\ session.stage = "done"
    /\ \E q \in inflight : q.state = "responded" /\ q.answer = NoDataAnswer

Stages ==
    << "embed", "retrieve", "gate", "analyze", "filter", "synthesize",
       "respond" >>

StageIndex(name) == CHOOSE i \in 1..Len(Stages) : Stages[i] = name

\* C4. Linear stage order: the stages of one query run each at most once,
\* in the order Embed, Retrieve, Gate, Analyze, Filter/Format, Synthesize,
\* Respond; a stage other than Respond runs right after its predecessor,
\* and Respond runs last.
C4_LinearStageOrder ==
    LET t == session.trace
    IN  /\ \A i \in 1..Len(t) : t[i] \in Range(Stages)
        /\ \A i, j \in 1..Len(t) :
               i < j => StageIndex(t[i]) < StageIndex(t[j])
        /\ \A i \in 1..Len(t) :
               t[i] # "respond" => StageIndex(t[i]) = i
        /\ session.stage \in Range(Stages) =>
               \A i \in 1..Len(t) : StageIndex(t[i]) < StageIndex(session.stage)
        /\ session.stage = "done" => (t # << >> /\ Last(t) = "respond")

\* a query ran through all seven stages
C4_Witness == session.trace = Stages

ErrorKinds == { "EmbeddingError", "RetrievalError", "ModelError" }

\* the response of the session's query is with the client
Delivered(q) == q.state = "responded" /\ q.status # "network"

\* C5, the backend: a failure of Embed, Retrieve or Synthesize ends the
\* query with a typed error and no answer, and the caller is told so.
C5_FailuresAreErrors ==
    /\ session.failed \in { "embed", "retrieve", "synthesize" } =>
           /\ Ended
           /\ session.outcome = "error"
           /\ session.error \in ErrorKinds
           /\ session.answer_text = << >>
           /\ session.cited_records = << >>
    /\ session.outcome = "error" => session.failed # "none"
    /\ \A q \in inflight :
           Delivered(q) =>
               /\ session.stage = "done"
               /\ (q.status = "error") = (session.outcome = "error")
               /\ (q.status = "ok") = (session.outcome = "answer")

\* C5, the client: handleSubmit appends one assistant message that is
\* flagged error exactly when the query failed; retryMessage never appends
\* an unflagged message for a failed query and leaves the flagged one.
C5_ClientFlagsFailures ==
    \A q \in inflight :
        (q.state = "responded" /\ q \notin inflight') =>
            IF q.kind = "submit"
            THEN /\ Len(messages') = Len(messages) + 1
                 /\ Last(messages').role = "assistant"
                 /\ Last(messages').error = (q.status # "ok")
                 /\ q.status = "ok" =>
                        /\ Last(messages').content = q.answer
                        /\ Last(messages').documents = q.documents
            ELSE IF q.status = "ok"
            THEN /\ Last(messages').role = "assistant"
                 /\ ~Last(messages').error
                 /\ Last(messages').content = q.answer
            ELSE messages' = messages

C10_RetrievalRanking ==
    LET res == session.retrieval_result
        scope == RecordsOf(session.snapshot, session.user_id)
        score(r) == Similarity(session.query_vector, r.embedding)
    IN  ("retrieve" \in Range(session.trace) /\ session.failed # "retrieve") =>
            /\ Len(res) = Min(config.top_k, Cardinality(scope))
            /\ Cardinality(RecordsIn(res)) = Len(res)
            /\ RecordsIn(res) \subseteq scope
            /\ \A i \in 1..Len(res) : res[i].score = score(res[i].record)
            /\ \A o \in scope \ RecordsIn(res) :
                   \A i \in 1..Len(res) : score(o) <= res[i].score
            /\ \A i, j \in 1..Len(res) :
                   i < j =>
                       \/ res[i].score > res[j].score
                       \/ /\ res[i].score = res[j].score
                          /\ res[i].record.id < res[j].record.id

\* top_k cut a scope of three records with two equal scores down to two
C10_Witness ==
    /\ "retrieve" \in Range(session.trace)
    /\ Len(session.retrieval_result) = 2
    /\ Cardinality(RecordsOf(session.snapshot, session.user_id)) = 3
    /\ session.retrieval_result[1].score = session.retrieval_result[2].score

---------------------------------------------------------------------------
(* Claims about the rebuild of the Record Store, checked under SpecSwap.   *)

\* a load_user_data rebuild is under way
Rebuilding == loader.phase = "building"

---------------------------------------------------------------------------
(* Claims about the Assistant component, checked under SpecClient.         *)

\* the requests a step sends
Sent == { q \in inflight' \ inflight : q.state = "sent" }

\* the history of every query handleSubmit sends in this step is the last
\* min(6, n) turns of the n messages the chat held before the query
C9_Truncation ==
    \A q \in Sent :
        q.kind = "submit" =>
            LET h == q.conversation_history
                n == Len(messages)
                k == Len(h)
            IN  /\ k = Min(6, n)
                /\ \A i \in 1..k :
                       /\ h[i].role = messages[n - k + i].role
                       /\ h[i].content = messages[n - k + i].content
                /\ messages' = Append(messages, Last(messages'))
                /\ Last(messages').role = "user"
                /\ Last(messages').content = q.query

\* C9. Conversation history truncation: the conversation_history that
\* handleSubmit passes on with a query holds at most 6 turns, the most
\* recent ones of the chat before the query, in their order (most recent
\* last) and with their role and content unchanged; older turns are
\* dropped.
C9_HistoryTruncation == [][C9_Truncation]_vars

\* a query went out with six turns of history from a chat of more than six
C9_Witness ==
    \E q \in inflight :
        /\ q.kind = "submit"
        /\ Len(q.conversation_history) = 6
        /\ Len(messages) >= 8
        /\ q.conversation_history[6].content = messages[Len(messages) - 1].content

\* a failed query of handleSubmit settles in this step
FailedSubmits ==
    { q \in inflight :
        /\ q.kind = "submit"
        /\ q.state = "responded"
        /\ q.status # "ok"
        /\ q \notin inflight' }

\* the Retry button of the message each of them leaves sends its query text
C7_RetryTargetIsQuery ==
    \A q \in FailedSubmits : RetryTarget(Last(messages')) = << q.query >>

\* C7 as stated. One-click retry of the exact same query: the Retry button
\* of the message a failed query leaves re-sends exactly the query text,
\* whatever the text, double quotes included.
C7_RetryExactQuery == [][C7_RetryTargetIsQuery]_vars

---------------------------------------------------------------------------
(* Claims about repeated executions, checked under SpecRepeat.             *)

\* two observed executions had the same inputs against the same store
SameInputs(a, b) ==
    /\ a.query_text = b.query_text
    /\ a.user_id = b.user_id
    /\ a.conversation_history = b.conversation_history
    /\ a.store = b.store

---------------------------------------------------------------------------
(* Claims about filter_and_format, checked under SpecFormat.               *)

\* filter_and_format has returned
Formatted == probe.op = "filter_and_format" /\ probe.called

Matching(rr, analysis) ==
    { r \in RecordsIn(rr) : Matches(r, analysis) }

\* C15. Filter fallback: when the analysis constraints would eliminate
\* every record of a non-empty retrieval result, filter_and_format selects
\* from the unfiltered top-K instead; otherwise it selects matching records
\* only; so selected_records is empty only if the retrieval result was.
C15_FilterFallback ==
    Formatted =>
        LET rr == probe.retrieval_result
            selected == RecordsIn(probe.context)
        IN  /\ (selected = {}) <=> (rr = << >>)
            /\ Matching(rr, probe.analysis) # {} =>
                   selected \subseteq Matching(rr, probe.analysis)
            /\ (rr # << >> /\ Matching(rr, probe.analysis) = {}) =>
                   /\ rr[1].record \in selected
                   /\ probe.context =
                          Format(rr, probe.max_context_chars, << >>)

\* no record of a retrieval result of two or more met the constraints, and
\* the top-ranked one was selected whole
C15_Witness ==
    /\ Formatted
    /\ probe.analysis # EmptyAnalysis
    /\ Len(probe.retrieval_result) >= 2
    /\ Matching(probe.retrieval_result, probe.analysis) = {}
    /\ probe.context # << >>
    /\ probe.context[1] =
           [ record |-> probe.retrieval_result[1].record,
             chars |-> probe.retrieval_result[1].record.chars ]

---------------------------------------------------------------------------
(* Claims about the Synthesizer, checked under Spec.                       *)

\* the Synthesize stage of the session's query has run
Synthesized == "synthesize" \in Range(session.trace)

\* C16. Empty context never reaches the model: whenever the context handed
\* to the Synthesizer is empty, the language model is not invoked for that
\* query and the answer is the templated no-relevant-information text; the
\* model is invoked with a non-empty context only.
C16_EmptyContextNoModel ==
    /\ (Synthesized /\ ContextLength(session.context) = 0) =>
           /\ ~session.model_invoked
           /\ session.outcome = "answer"
           /\ session.answer_text = NoRelevantInformationAnswer
           /\ session.failed = "none"
    /\ session.model_invoked =>
           (Synthesized /\ ContextLength(session.context) > 0)
    /\ \A q \in inflight :
           ( /\ Delivered(q)
             /\ Synthesized
             /\ ContextLength(session.context) = 0 ) =>
               q.status = "ok" /\ q.answer = NoRelevantInformationAnswer

\* a relevant retrieval result was formatted into an empty context and the
\* templated answer went out
C16_Witness ==
    /\ session.stage = "done"
    /\ Synthesized
    /\ session.retrieval_result # << >>
    /\ ContextLength(session.context) = 0
    /\ \E q \in inflight :
           Delivered(q) /\ q.answer = NoRelevantInformationAnswer

---------------------------------------------------------------------------
(* Claims about waiting, checked under SpecLive.                           *)

\* C13 as stated. No unbounded wait: every submitted query eventually ends
\* in an answer or an error, so the loading state of the Assistant always
\* returns to idle, even when the HTTP request to the backend never gets a
\* response.
C13_LoadingReturnsToIdle == isLoading ~> ~isLoading

---------------------------------------------------------------------------
(* Claims about the document API, checked under SpecDocs.                  *)

\* the documents and the pages a step removes
RemovedDocuments == docdb.documents \ docdb'.documents

RemovedPages == docdb.document_pages \ docdb'.document_pages

\* a request made on behalf of its caller neither returns nor removes a
\* document or a page of another user
OwnDataOnly ==
    /\ \A d \in RemovedDocuments : d.user_id = probe'.caller
    /\ \A pg \in RemovedPages : pg.user_id = probe'.caller
    /\ probe'.op # "none" =>
           \A d \in probe'.documents : d.user_id = probe'.caller

\* C14 as stated. Users can only access their own data in the document
\* API: a document read or delete request made on behalf of user A never
\* returns or removes a document, or its pages, whose user_id is another
\* user B, whatever document id is supplied.
C14_OwnDocumentsOnly == [][OwnDataOnly]_vars

---------------------------------------------------------------------------
(* Claims about the db-sync route, checked under SpecSync.                 *)

\* the columns of a row
Columns(row) == { row[c] : c \in DOMAIN row }

\* the columns of a row that hold recipients or attendees
ListColumns(row) ==
    { row[c] : c \in DOMAIN row \cap
                     { "to_recipients", "cc_recipients", "attendees" } }

\* C19. Sync normalisation: for every item of a db-sync request of type
\* emails or events, whatever fields the item lacks, the row handed to the
\* upsert has every column defined, by the item's value or by a default,
\* its recipient and attendee columns are arrays, and its user_id is the
\* userId of the request and never a value taken from the item.
C19_SyncNormalisation ==
    (probe.op = "db-sync" /\ probe.called) =>
        /\ (probe.status = 200) <=>
               (probe.type \in { "emails", "events" } /\ Truthy(probe.userId))
        /\ probe.status = 200 => Len(probe.rows) = Len(probe.data)
        /\ probe.status # 200 => probe.rows = << >>
        /\ \A i \in 1..Len(probe.rows) :
               /\ \A col \in Columns(probe.rows[i]) :
                      col.t \notin { "undefined", "null" }
               /\ \A col \in ListColumns(probe.rows[i]) : col.t = "array"
               /\ ListColumns(probe.rows[i]) # {}
               /\ probe.rows[i].user_id = probe.userId

\* an email item without id, sender and recipients, carrying a user_id of
\* its own, was made a row of the request's user
C19_Witness ==
    /\ probe.op = "db-sync"
    /\ probe.called
    /\ probe.type = "emails"
    /\ probe.status = 200
    /\ probe.data[1].id = Undefined
    /\ probe.data[1].from = Null
    /\ probe.data[1].toRecipients.t = "string"
    /\ probe.data[1].user_id.t = "string"
    /\ probe.rows[1].user_id # probe.data[1].user_id
    /\ probe.rows[1].mail_id \in GeneratedIds
    /\ probe.rows[1].to_recipients = Arr(<< >>)

---------------------------------------------------------------------------
(* Claims about the stored conversation (SpecHistory).                     *)

\* the messages a mount for user would load from storage
Restorable(storage, user) ==
    IF GetChatHistory(storage, user) = << >>
    THEN << >>
    ELSE << ParseMessages(GetChatHistory(storage, user)[1]) >>

\* chat_history_<userId> holds the conversation that is on display
C17_HistoryStored ==
    (mounted /\ Len(messages) > 1) =>
        Restorable(localStorage, userId) = << messages >>

\* an unmount leaves the conversation in storage, and the next mount
\* displays what is in storage
C17_RemountRestores ==
    /\ (mounted /\ ~mounted' /\ Len(messages) > 1) =>
           Restorable(localStorage', userId) = << messages >>
    /\ (~mounted /\ mounted' /\ Restorable(localStorage, userId) # << >>) =>
           /\ << messages' >> = Restorable(localStorage, userId)
           /\ Restorable(localStorage', userId) = Restorable(localStorage, userId)

\* C17. Chat history persistence: for a non-empty userId, whenever the
\* conversation holds more than the initial greeting, chat_history_<userId>
\* holds exactly the current message list, and remounting the Assistant for
\* that userId restores the same messages in the same order with the same
\* role, content, documents and error flag.
C17_ChatHistoryPersistence ==
    []C17_HistoryStored /\ [][C17_RemountRestores]_vars

\* a conversation with a failed query and an answer citing a record was
\* restored by a mount: the last message is a question nobody is answering
C17_Witness ==
    /\ mounted
    /\ ~isLoading
    /\ inflight = {}
    /\ Last(messages).role = "user"
    /\ \E i \in 1..Len(messages) : messages[i].error
    /\ \E i \in 1..Len(messages) : messages[i].documents # << >>
    /\ Restorable(localStorage, userId) = << messages >>

\* chat_history_<user> is absent from storage
Absent(storage, user) == GetChatHistory(storage, user) = << >>

\* a step of the mounted Assistant that empties a conversation: the
\* greeting alone is left, the key is gone, the sync status is as it was
C18_Clears ==
    (mounted /\ mounted' /\ messages # << Greeting >> /\ Len(messages') <= 1) =>
        /\ messages' = << Greeting >>
        /\ Absent(localStorage', userId)
        /\ isRagSynced' = isRagSynced
        /\ localStorage'.rag_sync_status = localStorage.rag_sync_status

\* the key is absent while the greeting is alone, and it comes back only
\* with a message appended to the conversation
C18_StaysAbsent ==
    /\ (mounted /\ Len(messages) <= 1) => Absent(localStorage, userId)
    /\ (Absent(localStorage, userId) /\ ~Absent(localStorage', userId)) =>
           /\ Len(messages') = Len(messages) + 1
           /\ SubSeq(messages', 1, Len(messages)) = messages

\* C18. Clear conversation: after a confirmed handleClearConversation the
\* message list is exactly the single initial greeting and
\* chat_history_<userId> is absent from localStorage; it stays absent until a
\* further message is appended, and the RAG sync status of the user is left
\* unchanged.
C18_ClearConversation == [][C18_Clears /\ C18_StaysAbsent]_vars

\* the conversation was cleared while its last query was in flight: the
\* greeting is alone, the key is gone and the user is still synced
C18_Witness ==
    /\ mounted
    /\ messages = << Greeting >>
    /\ \E r \in inflight : r.conversation_history # << >>
    /\ isLoading
    /\ isRagSynced
    /\ localStorage.rag_sync_status[userId] = "synced"
    /\ Absent(localStorage, userId)

---------------------------------------------------------------------------
(* Claims about the sync gate of the Assistant (SpecHistory).              *)

\* the fetches to /load_user_data whose handler ran to its end in a step
SyncsSettled ==
    IF mounted /\ ~mounted'
    THEN {}
    ELSE { s \in syncflight \ syncflight' : s.state = "responded" }

\* a query is sent only by a synced Assistant
C20_QueriesGated == Sent # {} => isRagSynced

\* isRagSynced turns true only in the handler of a successful
\* load_user_data of this user or in a mount that finds the stored status;
\* the stored status is written only by a successful load_user_data of
\* that user; a failed sync changes neither
C20_SyncedBySync ==
    /\ (~isRagSynced /\ isRagSynced') =>
           \/ \E s \in SyncsSettled :
                  s.status = "ok" /\ s.user_id = userId /\ ~s.orphan
           \/ /\ ~mounted /\ mounted'
              /\ localStorage.rag_sync_status[userId] = "synced"
    /\ \A u \in Users :
           localStorage'.rag_sync_status[u] # localStorage.rag_sync_status[u] =>
               /\ localStorage'.rag_sync_status[u] = "synced"
               /\ \E s \in SyncsSettled : s.status = "ok" /\ s.user_id = u
    /\ (SyncsSettled # {} /\ \A s \in SyncsSettled : s.status # "ok") =>
           /\ isRagSynced' = isRagSynced
           /\ localStorage'.rag_sync_status = localStorage.rag_sync_status

\* C20. Query gated on sync: the Assistant sends a /query request (from
\* handleSubmit or retryMessage) only while isRagSynced is true, and
\* isRagSynced becomes true only after a load_user_data call for that user
\* returned successfully or when the stored status rag_sync_status_<userId>
\* is 'synced'; a failed sync never sets it.
C20_QueryGatedOnSync == [][C20_QueriesGated /\ C20_SyncedBySync]_vars

\* after a failed sync and a successful one, a query is on its way
C20_Witness ==
    /\ mounted
    /\ isRagSynced
    /\ \E r \in inflight : r.state = "sent"
    /\ \E i \in 1..Len(messages) :
           /\ messages[i].content = SyncErrorText
           /\ \E j \in (i + 1)..Len(messages) : messages[j].content = SyncOkText

---------------------------------------------------------------------------
(* The Pagination component: src/app/page.tsx.                             *)

\* const maxVisiblePages = 5
maxVisiblePages == 5

\* Math.ceil(totalItems / itemsPerPage), for totalItems >= 0 < itemsPerPage
TotalPages(totalItems, itemsPerPage) ==
    (totalItems + itemsPerPage - 1) \div itemsPerPage

\* a faulty getPageNumbers: the window is not moved back at the end
GetPageNumbersUnadjusted(currentPage, totalPages) ==
    LET startPage == Max(1, currentPage - (maxVisiblePages \div 2))
        endPage == Min(totalPages, startPage + maxVisiblePages - 1)
    IN  [ i \in 1..Max(endPage - startPage + 1, 0) |-> startPage + i - 1 ]

\* getPageNumbers
GetPageNumbers(currentPage, totalPages) ==
    LET startPage == Max(1, currentPage - (maxVisiblePages \div 2))
        endPage == Min(totalPages, startPage + maxVisiblePages - 1)
        adjusted == IF endPage - startPage + 1 < maxVisiblePages
                    THEN Max(1, endPage - maxVisiblePages + 1)
                    ELSE startPage
    IN  [ i \in 1..Max(endPage - adjusted + 1, 0) |-> adjusted + i - 1 ]

\* a render of Pagination over every list and every current page, in and
\* out of range
PagesInit ==
    /\ AtRest
    /\ docdb = NoDocuments
    /\ \E totalItems \in 0..MaxTotalItems, itemsPerPage \in 1..MaxItemsPerPage,
          currentPage \in 0..(MaxTotalItems + 1) :
        probe = [ op |-> "Pagination", currentPage |-> currentPage,
                  totalItems |-> totalItems, itemsPerPage |-> itemsPerPage,
                  called |-> FALSE, rendered |-> FALSE, pages |-> << >> ]

\* Pagination: null when there is at most one page, else the page buttons
Pagination ==
    /\ probe.op = "Pagination"
    /\ ~probe.called
    /\ LET totalPages == TotalPages(probe.totalItems, probe.itemsPerPage)
       IN  probe' = IF totalPages <= 1
                    THEN [ probe EXCEPT !.called = TRUE ]
                    ELSE [ probe EXCEPT !.called = TRUE, !.rendered = TRUE,
                             !.pages = GetPageNumbers(probe.currentPage,
                                                      totalPages) ]
    /\ UNCHANGED << restVars, docdb >>

SpecPages == PagesInit /\ [][Pagination]_vars

\* C21. Pagination window: for every totalPages >= 2 and every currentPage
\* with 1 <= currentPage <= totalPages, getPageNumbers returns consecutive
\* increasing page numbers, all within 1..totalPages, of length
\* min(5, totalPages), and the list contains currentPage.
C21_PaginationWindow ==
    (/\ probe.op = "Pagination"
     /\ probe.called
     /\ TotalPages(probe.totalItems, probe.itemsPerPage) >= 2
     /\ probe.currentPage >= 1
     /\ probe.currentPage <= TotalPages(probe.totalItems, probe.itemsPerPage)) =>
        LET totalPages == TotalPages(probe.totalItems, probe.itemsPerPage)
            pages == probe.pages
        IN  /\ probe.rendered
            /\ Len(pages) = Min(5, totalPages)
            /\ \A i \in 1..Len(pages) : pages[i] >= 1 /\ pages[i] <= totalPages
            /\ \A i \in 1..(Len(pages) - 1) : pages[i + 1] = pages[i] + 1
            /\ \E i \in 1..Len(pages) : pages[i] = probe.currentPage

\* the last page of a list of more than five pages was rendered: the
\* window was moved back to hold five pages
C21_Witness ==
    /\ probe.op = "Pagination"
    /\ probe.called
    /\ probe.rendered
    /\ TotalPages(probe.totalItems, probe.itemsPerPage) > 5
    /\ probe.currentPage = TotalPages(probe.totalItems, probe.itemsPerPage)
    /\ Len(probe.pages) = 5
    /\ probe.pages[5] = probe.currentPage

---------------------------------------------------------------------------
(* The Assistant under a changing userId prop (Assistant.tsx:53, 73-103).  *)

\* the userId prop of the mounted Assistant changes to user: the effects
\* that depend on userId run again in the commit, the load effect first
\* and the save effect, with the messages of this render, after it; when
\* the load effect has set the stored messages, the next render saves them
UserIdChanges(user) ==
    /\ mounted
    /\ user # userId
    /\ userId' = user
    /\ messages' = IF user # "" /\ GetChatHistory(localStorage, user) # << >>
                   THEN ParseMessages(GetChatHistory(localStorage, user)[1])
                   ELSE messages
    /\ isRagSynced' = IF user # "" /\ localStorage.rag_sync_status[user] = "synced"
                      THEN TRUE ELSE isRagSynced
    /\ localStorage' = SaveEffect(SaveEffect(localStorage, user, messages),
                                  user, messages')
    /\ UNCHANGED << mounted, isLoading, isRagSyncing, retryingMessage,
                    inflight, syncflight, serverVars >>

\* what each user types: every user has a text of their own
TypedBy(user) == IF user = "alice" THEN << "a" >> ELSE << "b" >>

\* The Assistant of alice and bob in turn against any backend; alice may
\* have synced on an earlier visit.
UsersNext ==
    \/ MountEffect
    \/ (Len(messages) < MaxUsersMsgs /\ HandleSubmit(TypedBy(userId)))
    \/ SubmitSettles
    \/ \E user \in { "alice", "bob" } : UserIdChanges(user)
    \/ BackendReplies

SpecUsers == ClientSpecInit /\ [][UsersNext]_vars

\* the texts of the user messages stored under chat_history_<user>
StoredQuestions(user) ==
    IF GetChatHistory(localStorage, user) = << >>
    THEN {}
    ELSE LET stored == ParseMessages(GetChatHistory(localStorage, user)[1])
         IN  { stored[i].content :
                 i \in { j \in 1..Len(stored) : stored[j].role = "user" } }

\* C22 as stated. Cross-user chat history isolation: across any sequence of
\* userId changes of a mounted Assistant, the value stored under
\* chat_history_<U> only ever contains messages that were produced while
\* userId was U: every question stored under a user's key is a text that
\* user typed.
C22_CrossUserIsolation ==
    \A user \in Users : StoredQuestions(user) \subseteq { TypedBy(user) }

---------------------------------------------------------------------------
(* Claims about the handlers of the Assistant (SpecClient).                *)

\* at most one /query request is outstanding, and isLoading tells whether
\* one is
C23_LoadingIffOutstanding ==
    /\ Cardinality(inflight) <= 1
    /\ isLoading <=> inflight # {}

\* a /query request is started only when isLoading is false
C23_StartedWhenIdle == Sent # {} => (~isLoading /\ Cardinality(Sent) = 1)

\* C23. At most one query in flight: across any interleaving of handleSubmit
\* and retryMessage invocations on one Assistant, a new /query request is
\* started only when isLoading is false, so there is never more than one
\* outstanding /query request, and isLoading is true exactly while one is
\* outstanding.
C23_OneQueryInFlight ==
    []C23_LoadingIffOutstanding /\ [][C23_StartedWhenIdle]_vars

\* a retry is outstanding, after two queries of handleSubmit, one of them
\* failed
C23_Witness ==
    /\ isLoading
    /\ \E r \in inflight : r.kind = "retry" /\ r.state = "sent"
    /\ Cardinality({ i \in 1..Len(messages) : messages[i].role = "user" }) >= 2
    /\ \E i \in 1..Len(messages) : RetryTarget(messages[i]) # << >>

\* the requests of handleSubmit that settle in a step
SubmitsSettled ==
    { q \in inflight \ inflight' : q.kind = "submit" /\ q.state = "responded" }

\* msgs with one message appended
Appended(before, after) ==
    /\ Len(after) = Len(before) + 1
    /\ SubSeq(after, 1, Len(before)) = before

\* an accepted handleSubmit appends the user message of its query; its
\* settling appends the answer with its documents or an error message that
\* quotes the query
C24_OneReply ==
    /\ \A q \in Sent :
           q.kind = "submit" =>
               /\ Appended(messages, messages')
               /\ Last(messages').role = "user"
               /\ Last(messages').content = q.query
               /\ ~Last(messages').error
    /\ \A q \in SubmitsSettled :
           /\ Appended(messages, messages')
           /\ Last(messages').role = "assistant"
           /\ IF q.status = "ok"
              THEN /\ ~Last(messages').error
                   /\ Last(messages').content = q.answer
                   /\ Last(messages').documents = q.documents
              ELSE /\ Last(messages').error
                   /\ Last(messages').documents = << >>
                   /\ Includes(Last(messages').content, q.query)

---------------------------------------------------------------------------
(* Claims about retryMessage (SpecRetry).                                  *)

\* what the user types in the retried conversations: a word of its own and
\* a word of the error message's closing sentence ('try')
RetryInputs == { << "a" >>, << "t" >> }

\* The Assistant of one user against any backend: queries fail and are
\* retried.
RetryNext ==
    \/ UserActs(MaxRetryMsgs, MaxSyncMsgs, RetryInputs)
    \/ Settles
    \/ BackendReplies
    \/ BackendSyncReplies

SpecRetry == ClientSpecInit /\ [][RetryNext]_vars

\* the retries that settle in a step
RetriesSettled ==
    { q \in inflight \ inflight' : q.kind = "retry" /\ q.state = "responded" }

\* msg is an assistant error message that quotes query
QuotesQuery(msg, query) ==
    /\ msg.role = "assistant"
    /\ msg.error
    /\ Includes(msg.content, << Q >> \o query \o << Q >>)

\* the messages of msgs other than the error messages that quote query
Others(msgs, query) == SelectSeq(msgs, LAMBDA msg : ~QuotesQuery(msg, query))

C25_Retry ==
    \A q \in RetriesSettled :
        /\ isLoading' = FALSE
        /\ retryingMessage' = << >>
        /\ IF q.status = "ok"
           THEN /\ Len(messages') >= 1
                /\ Last(messages') =
                       Message("assistant", q.answer, q.documents, FALSE)
                /\ Others(SubSeq(messages', 1, Len(messages') - 1), q.query)
                       = Others(messages, q.query)
                /\ \A i \in 1..(Len(messages') - 1) :
                       ~QuotesQuery(messages'[i], q.query)
                /\ Len(messages') - 1 = Len(Others(messages, q.query))
           ELSE messages' = messages

\* C25 as stated. Retry effect: a successful retryMessage(q) removes only
\* assistant error messages that quote q and appends one assistant answer,
\* leaving every other message unchanged and in order; a failed
\* retryMessage(q) leaves the message list unchanged; in both cases
\* isLoading and retryingMessage are reset to false and null.
C25_RetryEffect == [][C25_Retry]_vars

---------------------------------------------------------------------------
(* The transactions of src/app/utils/neondb.ts.  A connection sees its own *)
(* uncommitted work; the tables everyone else sees change at COMMIT, or at *)
(* once when a statement runs outside a transaction.                       *)

\* the columns of the UNIQUE constraint of a row's table
KeyOf(row) ==
    IF "mail_id" \in DOMAIN row
    THEN << row.user_id, row.mail_id >>
    ELSE << row.user_id, row.event_id >>

\* INSERT ... ON CONFLICT (user_id, mail_id) DO UPDATE SET ...: the row
\* with the key of row, if any, takes the values of row
Upsert(rows, row) == { r \in rows : KeyOf(r) # KeyOf(row) } \cup { row }

\* the tables after one statement has run on them
Apply(stmt, tables) ==
    CASE stmt.kind = "upsert" ->
           [ tables EXCEPT ![stmt.table] = Upsert(@, stmt.row) ]
      [] stmt.kind = "delete_pages" ->
           [ tables EXCEPT
               !.document_pages = { pg \in @ : pg.document_id # stmt.id } ]
      [] stmt.kind = "delete_document" ->
           [ tables EXCEPT !.documents = { d \in @ : d.id # stmt.id } ]

\* a connection just taken from the pool
Connection(tables) == [ committed |-> tables, work |-> tables, inTx |-> FALSE ]

\* client.query(stmt) that succeeds
Query(conn, stmt) ==
    CASE stmt.kind = "BEGIN" ->
           [ conn EXCEPT !.inTx = TRUE, !.work = conn.committed ]
      [] stmt.kind = "COMMIT" ->
           [ conn EXCEPT !.inTx = FALSE, !.committed = conn.work ]
      [] stmt.kind = "ROLLBACK" ->
           [ conn EXCEPT !.inTx = FALSE, !.work = conn.committed ]
      [] OTHER ->
           IF conn.inTx
           THEN [ conn EXCEPT !.work = Apply(stmt, conn.work) ]
           ELSE [ conn EXCEPT !.work = Apply(stmt, conn.committed),
                              !.committed = Apply(stmt, conn.committed) ]

\* the connection after the first n statements of stmts succeeded
RECURSIVE QueryAll(_, _, _)
QueryAll(conn, stmts, n) ==
    IF n = 0 THEN conn
    ELSE Query(QueryAll(conn, stmts, n - 1), stmts[n])

\* try { BEGIN; body; COMMIT; return success } catch { ROLLBACK; return
\* failure } finally { release }: fails is the number of the statement
\* that fails (0 when none does, -1 when pool.connect() rejects), and
\* rollbackFails tells whether the ROLLBACK of the catch block fails too
Transaction(tables, body, fails, rollbackFails) ==
    LET stmts == << [ kind |-> "BEGIN" ] >> \o body \o << [ kind |-> "COMMIT" ] >>
        conn == Connection(tables)
    IN  IF fails = -1
        THEN [ tables |-> tables, returned |-> "throws", connected |-> FALSE,
               released |-> 0 ]
        ELSE IF fails = 0
        THEN [ tables |-> QueryAll(conn, stmts, Len(stmts)).committed,
               returned |-> "success", connected |-> TRUE, released |-> 1 ]
        ELSE LET caught == QueryAll(conn, stmts, fails - 1)
             IN  IF rollbackFails
                 THEN [ tables |-> caught.committed, returned |-> "throws",
                        connected |-> TRUE, released |-> 1 ]
                 ELSE [ tables |->
                            Query(caught, [ kind |-> "ROLLBACK" ]).committed,
                        returned |-> "failure", connected |-> TRUE,
                        released |-> 1 ]

\* the statements of upsertEmails(emails)
UpsertEmailsBody(emails) ==
    [ i \in 1..Len(emails) |->
        [ kind |-> "upsert", table |-> "outlook_mails", row |-> emails[i] ] ]

\* the statements of upsertEvents(events, tableName)
UpsertEventsBody(events, tableName) ==
    [ i \in 1..Len(events) |->
        [ kind |-> "upsert", table |-> tableName, row |-> events[i] ] ]

\* the statements of deleteDocument(docId)
DeleteDocumentBody(docId) ==
    << [ kind |-> "delete_pages", id |-> docId ],
       [ kind |-> "delete_document", id |-> docId ] >>

\* sequences of at most n elements of S
RECURSIVE SeqsUpTo(_, _)
SeqsUpTo(S, n) ==
    IF n = 0 THEN { << >> }
    ELSE LET shorter == SeqsUpTo(S, n - 1)
         IN  shorter \cup { Append(t, x) : t \in shorter, x \in S }

\* the rows a batch may hold
MailRows ==
    { [ user_id |-> "alice", mail_id |-> id, subject |-> subject ] :
        id \in { "m1", "m2" }, subject \in { "s1", "s2" } }

EventRows ==
    { [ user_id |-> "alice", event_id |-> id, subject |-> "s1" ] :
        id \in { "e1", "e2" } }

\* the tables before a call: a mail and an event synced earlier, a
\* document of alice with two pages and one of bob with one
StoredTables ==
    [ outlook_mails |->
          { [ user_id |-> "alice", mail_id |-> "m1", subject |-> "s0" ] },
      outlook_events |->
          { [ user_id |-> "alice", event_id |-> "e1", subject |-> "s0" ] },
      documents |-> { [ id |-> 1, user_id |-> "alice" ],
                      [ id |-> 2, user_id |-> "bob" ] },
      document_pages |->
          { [ document_id |-> 1, page_number |-> 1 ],
            [ document_id |-> 1, page_number |-> 2 ],
            [ document_id |-> 2, page_number |-> 1 ] } ]

\* a call of one of the three functions, not yet made
TxCall(fn, body) ==
    [ op |-> "transaction", fn |-> fn, body |-> body, before |-> StoredTables,
      called |-> FALSE, fails |-> 0, rollbackFails |-> FALSE,
      outcome |-> [ tables |-> StoredTables, returned |-> "none",
                    connected |-> FALSE, released |-> 0 ] ]

TxInit ==
    /\ AtRest
    /\ docdb = NoDocuments
    /\ \/ \E emails \in SeqsUpTo(MailRows, MaxBatch) :
            probe = TxCall("upsertEmails", UpsertEmailsBody(emails))
       \/ \E events \in SeqsUpTo(EventRows, MaxBatch) :
            probe = TxCall("upsertEvents",
                           UpsertEventsBody(events, "outlook_events"))
       \/ \E docId \in 1..MaxDocId :
            probe = TxCall("deleteDocument", DeleteDocumentBody(docId))

\* one call of upsertEmails, upsertEvents or deleteDocument, with every
\* way its statements can fail
CallTransaction ==
    /\ probe.op = "transaction"
    /\ ~probe.called
    /\ \E fails \in -1..(Len(probe.body) + 2), rollbackFails \in BOOLEAN :
        /\ rollbackFails => fails > 0
        /\ probe' = [ probe EXCEPT
               !.called = TRUE, !.fails = fails,
               !.rollbackFails = rollbackFails,
               !.outcome = Transaction(probe.before, probe.body, fails,
                                       rollbackFails) ]
    /\ UNCHANGED << restVars, docdb >>

SpecTx == TxInit /\ [][CallTransaction]_vars

\* C26 as stated. Transactional writes: upsertEmails, upsertEvents and
\* deleteDocument are all-or-nothing: if any statement of the call fails,
\* none of the call's changes is visible afterwards and the call returns
\* success = false; in every outcome the pooled connection is released
\* exactly once.
C26_TransactionalWrites ==
    (probe.op = "transaction" /\ probe.called) =>
        /\ probe.fails > 0 =>
               /\ probe.outcome.tables = probe.before
               /\ probe.outcome.returned = "failure"
        /\ probe.outcome.connected => probe.outcome.released = 1

---------------------------------------------------------------------------
(* Repeated syncs: POST /api/db-sync of type 'emails' into outlook_mails.  *)

\* the emails of the repeated syncs: with and without an id, with one
\* subject or another
ResyncEmails ==
    LET base == CHOOSE e \in EmailItems : e.id = Undefined
    IN  { [ base EXCEPT !.id = id, !.subject = subject ] :
            id \in { Undefined, Str(<< "m" >>) },
            subject \in { Str(<< "s" >>), Str(<< "t" >>) } }

\* the rows POST makes of data; generated[i] is the value of
\* `unknown-${Date.now()}-${Math.random()}` for item i
EmailRows(data, user, generated) ==
    [ i \in 1..Len(data) |-> EmailRow(data[i], user, generated[i]) ]

\* no sync was posted yet: outlook_mails is empty
ResyncInit ==
    /\ AtRest
    /\ docdb = NoDocuments
    /\ probe = [ op |-> "resync", userId |-> Str(<< "a", "l" >>),
                 posted |-> << >>, rows |-> << >>, after |-> << >>,
                 tables |-> [ StoredTables EXCEPT !.outlook_mails = {} ] ]

\* POST /api/db-sync with type 'emails' and a batch for the same userId,
\* whose upsertEmails commits
PostEmails ==
    /\ probe.op = "resync"
    /\ Len(probe.posted) < MaxPosts
    /\ \E data \in SeqsUpTo(ResyncEmails, MaxBatch) \ { << >> } :
       \E generated \in [ 1..Len(data) -> GeneratedIds ] :
        LET rows == EmailRows(data, probe.userId, generated)
            done == Transaction(probe.tables, UpsertEmailsBody(rows), 0, FALSE)
        IN  probe' = [ probe EXCEPT
                !.posted = Append(@, data),
                !.rows = Append(@, rows),
                !.after = Append(@, done.tables.outlook_mails),
                !.tables = done.tables ]
    /\ UNCHANGED << restVars, docdb >>

SpecResync == ResyncInit /\ [][PostEmails]_vars

\* C27 as stated. Idempotent sync: posting the same batch of emails for the
\* same userId to /api/db-sync twice leaves the table with the same set of
\* rows as posting it once; after any sequence of syncs there is at most
\* one row per (user_id, mail_id), holding the most recently synced field
\* values.
C27_IdempotentSync ==
    probe.op = "resync" =>
        /\ \A i \in 2..Len(probe.posted) :
               probe.posted[i] = probe.posted[i - 1] =>
                   probe.after[i] = probe.after[i - 1]
        /\ \A r1, r2 \in probe.tables.outlook_mails :
               KeyOf(r1) = KeyOf(r2) => r1 = r2
        /\ \A i \in 1..Len(probe.rows) :
               \A k \in 1..Len(probe.rows[i]) :
                   (\A j \in i..Len(probe.rows) :
                        \A l \in 1..Len(probe.rows[j]) :
                            (j > i \/ l > k) =>
                                KeyOf(probe.rows[j][l]) # KeyOf(probe.rows[i][k]))
                   => probe.rows[i][k] \in probe.tables.outlook_mails

---------------------------------------------------------------------------
(* syncToDatabase of useAuth (Assistant.tsx:1101-1260).  A run is a record *)
(* in probe: where it stands, the steps it started, the steps in which a   *)
(* request failed, and the batches /api/db-sync has committed.             *)

\* a run not yet started, for a session in any state
SyncRunInit ==
    /\ AtRest
    /\ docdb = NoDocuments
    /\ \E authenticated \in BOOLEAN, profile \in BOOLEAN, cached \in BOOLEAN :
        probe = [ op |-> "syncToDatabase", pc |-> "idle",
                  isAuthenticated |-> authenticated, userData |-> profile,
                  allEvents |-> cached, isSyncing |-> FALSE,
                  started |-> << >>, failed |-> {}, committed |-> << >>,
                  error |-> "none" ]

\* the catch and finally blocks of syncToDatabase
Caught(run, step) ==
    [ run EXCEPT !.pc = "finished", !.failed = @ \cup { step },
                 !.error = "failed", !.isSyncing = FALSE ]

\* syncToDatabase up to the first step: the guard, setIsSyncing(true) and
\* getGraphClient
BeginSync ==
    /\ probe.op = "syncToDatabase"
    /\ probe.pc = "idle"
    /\ IF ~probe.isAuthenticated \/ ~probe.userData
       THEN probe' = [ probe EXCEPT !.pc = "finished" ]
       ELSE \E token \in BOOLEAN :
               probe' = IF token
                        THEN [ probe EXCEPT !.pc = "emails", !.isSyncing = TRUE ]
                        ELSE Caught([ probe EXCEPT !.isSyncing = TRUE ], "token")
    /\ UNCHANGED << restVars, docdb >>

\* a loop that gets pages of 50 and posts each page at once: pages are
\* committed one by one until an empty page ends the loop, or until the
\* Graph request or the post of a page fails
PagedSync(run, step, next, pages, ending) ==
    LET posted == [ run EXCEPT
                      !.started = Append(@, step),
                      !.committed = @ \o [ i \in 1..pages |-> step ] ]
    IN  IF ending = "empty page"
        THEN [ posted EXCEPT !.pc = next ]
        ELSE Caught(posted, step)

\* syncEmailsToDatabase
SyncEmailsToDatabase ==
    /\ probe.op = "syncToDatabase"
    /\ probe.pc = "emails"
    /\ \E pages \in 0..MaxPages,
          ending \in { "empty page", "graph fails", "post fails" } :
        probe' = PagedSync(probe, "emails", "events", pages, ending)
    /\ UNCHANGED << restVars, docdb >>

\* syncEventsToDatabase: the events in state are posted, or else what
\* fetchAllEvents returns, which is [] when its Graph request failed
SyncEventsToDatabase ==
    /\ probe.op = "syncToDatabase"
    /\ probe.pc = "events"
    /\ LET begun == [ probe EXCEPT !.started = Append(@, "events") ]
           Posts(run) ==
               { [ run EXCEPT !.pc = "nextWeek",
                              !.committed = Append(@, "events") ],
                 Caught(run, "events") }
       IN  probe' \in
             IF probe.allEvents
             THEN Posts(begun)
             ELSE { [ begun EXCEPT !.pc = "nextWeek",
                                   !.failed = @ \cup { "events" } ],
                    [ begun EXCEPT !.pc = "nextWeek" ] }
                  \cup Posts(begun)
    /\ UNCHANGED << restVars, docdb >>

\* syncNextWeekEventsToDatabase
SyncNextWeekEventsToDatabase ==
    /\ probe.op = "syncToDatabase"
    /\ probe.pc = "nextWeek"
    /\ \E pages \in 0..MaxPages,
          ending \in { "empty page", "graph fails", "post fails" } :
        probe' = PagedSync(probe, "nextWeek", "succeeded", pages, ending)
    /\ UNCHANGED << restVars, docdb >>

\* the end of the try block and finally
EndSync ==
    /\ probe.op = "syncToDatabase"
    /\ probe.pc = "succeeded"
    /\ probe' = [ probe EXCEPT !.pc = "finished", !.error = "completed",
                               !.isSyncing = FALSE ]
    /\ UNCHANGED << restVars, docdb >>

SyncRunNext ==
    \/ BeginSync
    \/ SyncEmailsToDatabase
    \/ SyncEventsToDatabase
    \/ SyncNextWeekEventsToDatabase
    \/ EndSync

SpecSyncRun == SyncRunInit /\ [][SyncRunNext]_vars

\* the steps in their order
SyncSteps == << "emails", "events", "nextWeek" >>

\* the steps run in order, no step starts after a step in which a request
\* failed, and a finished run has isSyncing false
C28_OrderAndAbort ==
    probe.op = "syncToDatabase" =>
        /\ probe.started = SubSeq(SyncSteps, 1, Len(probe.started))
        /\ \A i \in 1..Len(probe.started) :
               probe.started[i] \in probe.failed => i = Len(probe.started)
        /\ "token" \in probe.failed => probe.started = << >>
        /\ probe.pc = "finished" => ~probe.isSyncing

\* the batches committed before a step stay committed
C28_CommittedStay ==
    probe.op = "syncToDatabase" =>
        /\ Len(probe'.committed) >= Len(probe.committed)
        /\ SubSeq(probe'.committed, 1, Len(probe.committed)) = probe.committed

\* C28 as stated. Database sync order and abort: syncToDatabase runs emails,
\* then calendar events, then next-week events, strictly in that order; a
\* failure in one step prevents every later step from starting, batches
\* already committed before the failure stay in the database, and isSyncing
\* is false again whenever syncToDatabase has finished, on success or
\* failure.
C28_SyncOrderAndAbort == []C28_OrderAndAbort /\ [][C28_CommittedStay]_vars

---------------------------------------------------------------------------
(* The uploads of KnowledgeBase (src/unnamed/part_001).  Two files are     *)
(* dropped; each runs its own processFile.  probe.uploadStatuses is the    *)
(* state of the component; entry.upload tells which processFile appended   *)
(* the entry and is read by no handler.                                    *)

Uploads == { 1, 2 }

\* prev.map(status => status.fileName === fileName ? {...status, status:
\* value} : status)
SetStatus(statuses, fileName, value) ==
    [ i \in 1..Len(statuses) |->
        IF statuses[i].fileName = fileName
        THEN [ statuses[i] EXCEPT !.status = value ]
        ELSE statuses[i] ]

\* two files were dropped, with the same name or with two names
UploadInit ==
    /\ AtRest
    /\ docdb = NoDocuments
    /\ \E names \in [ Uploads -> { "x.pdf", "y.pdf" } ],
          pages \in [ Uploads -> 0..MaxPdfPages ] :
        probe = [ op |-> "uploads", fileName |-> names, numPages |-> pages,
                  pc |-> [ u \in Uploads |-> "dropped" ],
                  inserted |-> [ u \in Uploads |-> FALSE ],
                  stored |-> [ u \in Uploads |-> 0 ],
                  uploadStatuses |-> << >> ]

\* onDrop calls processFile, which appends the file's entry
ProcessFile(u) ==
    /\ probe.op = "uploads"
    /\ probe.pc[u] = "dropped"
    /\ probe' = [ probe EXCEPT
           !.pc[u] = "uploading",
           !.uploadStatuses =
               Append(@, [ fileName |-> probe.fileName[u],
                           status |-> "uploading", upload |-> u ]) ]
    /\ UNCHANGED << restVars, docdb >>

\* the catch block of processFile
UploadFails(u) ==
    [ probe EXCEPT
        !.pc[u] = "done",
        !.uploadStatuses = SetStatus(@, probe.fileName[u], "error") ]

\* the PDF is loaded and the document row inserted, or one of the two fails
InsertDocumentSettles(u) ==
    /\ probe.op = "uploads"
    /\ probe.pc[u] = "uploading"
    /\ \E ok \in BOOLEAN :
        probe' = IF ok
                 THEN [ probe EXCEPT
                          !.pc[u] = "processing",
                          !.inserted[u] = TRUE,
                          !.uploadStatuses =
                              SetStatus(@, probe.fileName[u], "processing") ]
                 ELSE UploadFails(u)
    /\ UNCHANGED << restVars, docdb >>

\* one turn of the loop over the pages: the page is embedded and stored, or
\* one of the two requests fails
PageSettles(u) ==
    /\ probe.op = "uploads"
    /\ probe.pc[u] = "processing"
    /\ probe.stored[u] < probe.numPages[u]
    /\ \E ok \in BOOLEAN :
        probe' = IF ok
                 THEN [ probe EXCEPT !.stored[u] = @ + 1 ]
                 ELSE UploadFails(u)
    /\ UNCHANGED << restVars, docdb >>

\* the end of the try block
UploadCompletes(u) ==
    /\ probe.op = "uploads"
    /\ probe.pc[u] = "processing"
    /\ probe.stored[u] = probe.numPages[u]
    /\ probe' = [ probe EXCEPT
           !.pc[u] = "done",
           !.uploadStatuses = SetStatus(@, probe.fileName[u], "completed") ]
    /\ UNCHANGED << restVars, docdb >>

UploadNext ==
    \E u \in Uploads :
        \/ ProcessFile(u)
        \/ InsertDocumentSettles(u)
        \/ PageSettles(u)
        \/ UploadCompletes(u)

SpecUpload == UploadInit /\ [][UploadNext]_vars

\* the moves of an upload status
StatusMoves ==
    { << "uploading", "processing" >>, << "processing", "completed" >>,
      << "uploading", "error" >>, << "processing", "error" >> }

\* an entry is completed only if its file's document row was inserted and
\* all its pages were stored
C29_CompletedIsStored ==
    probe.op = "uploads" =>
        \A i \in 1..Len(probe.uploadStatuses) :
            LET entry == probe.uploadStatuses[i]
            IN  entry.status = "completed" =>
                    /\ probe.inserted[entry.upload]
                    /\ probe.stored[entry.upload] = probe.numPages[entry.upload]

\* every entry stays, and its status stays or makes one of the moves
C29_Moves ==
    probe.op = "uploads" =>
        /\ Len(probe'.uploadStatuses) >= Len(probe.uploadStatuses)
        /\ \A i \in 1..Len(probe.uploadStatuses) :
               /\ probe'.uploadStatuses[i].upload = probe.uploadStatuses[i].upload
               /\ \/ probe'.uploadStatuses[i].status = probe.uploadStatuses[i].status
                  \/ << probe.uploadStatuses[i].status,
                        probe'.uploadStatuses[i].status >> \in StatusMoves

\* C29 as stated. Upload status machine: for each file given to processFile,
\* its upload status moves only uploading -> processing -> completed or from
\* uploading/processing to error, never leaves completed or error, and
\* reaches completed only if the document row was inserted and every
\* non-empty page was embedded and stored; this holds also when several
\* uploads run concurrently, including two files with the same name.
C29_UploadStatusMachine == []C29_CompletedIsStored /\ [][C29_Moves]_vars

---------------------------------------------------------------------------
(* The useAuth hook (src/app/components/Assistant.tsx, 722-1288): the      *)
(* effect that runs initializeAuth once, and the handlers of the sign-in   *)
(* and sign-out buttons.  probe.init and probe.click are the positions of  *)
(* the two asynchronous functions; probe.profileFailed records that the    *)
(* last getUserData threw.                                                 *)

\* userData after useState(null)
NoUserData == << >>

\* user.mail of /me: an address, or null for an account without a mailbox
Mails == { "alice", "" }

\* setUserData({ displayName, email: user.mail, photoUrl })
SetUserData(mail) == << [ email |-> mail ] >>

\* userId={userData?.email || ''}
UserIdProp(data) == IF data = NoUserData THEN "" ELSE data[1].email

AuthInit ==
    /\ AtRest
    /\ docdb = NoDocuments
    /\ \E cached \in BOOLEAN :
        probe = [ op |-> "auth", accounts |-> cached, init |-> "mounted",
                  click |-> "idle", clicks |-> 0, isAuthenticated |-> FALSE,
                  userData |-> NoUserData, isLoading |-> FALSE,
                  error |-> "null", profileFailed |-> FALSE ]

\* initializeAuth up to its first await of getUserData
InitializeAuth ==
    /\ probe.op = "auth"
    /\ probe.init = "mounted"
    /\ \E ok \in BOOLEAN :
        probe' = IF ~ok
                 THEN [ probe EXCEPT
                          !.init = "done",
                          !.error = "Failed to initialize authentication" ]
                 ELSE IF probe.accounts
                 THEN [ probe EXCEPT !.init = "getUserData",
                                     !.isAuthenticated = TRUE ]
                 ELSE [ probe EXCEPT !.init = "done" ]
    /\ UNCHANGED << restVars, docdb >>

\* getUserData: the profile is read and stored, or the error is set and
\* thrown again
GetUserData(state, mail) ==
    [ state EXCEPT !.userData = SetUserData(mail), !.profileFailed = FALSE ]

GetUserDataThrows(state) ==
    [ state EXCEPT !.error = "Failed to fetch user data",
                   !.profileFailed = TRUE ]

\* the await of getUserData in initializeAuth settles; the catch block sets
\* the error only
InitializeAuthProfile ==
    /\ probe.op = "auth"
    /\ probe.init = "getUserData"
    /\ \/ \E mail \in Mails :
            probe' = [ GetUserData(probe, mail) EXCEPT !.init = "loads" ]
       \/ probe' = [ GetUserDataThrows(probe) EXCEPT
                       !.init = "done",
                       !.error = "Failed to initialize authentication" ]
    /\ UNCHANGED << restVars, docdb >>

\* getEmails, getEvents and getNextWeekEvents catch their own errors
InitializeAuthLoads ==
    /\ probe.op = "auth"
    /\ probe.init = "loads"
    /\ \E failed \in BOOLEAN :
        probe' = [ probe EXCEPT
                     !.init = "done",
                     !.error = IF failed THEN "Failed to fetch emails" ELSE @ ]
    /\ UNCHANGED << restVars, docdb >>

\* the sign-in button, shown while not authenticated and disabled while
\* loading
SignIn ==
    /\ probe.op = "auth"
    /\ probe.click = "idle"
    /\ probe.clicks < MaxClicks
    /\ ~probe.isAuthenticated
    /\ ~probe.isLoading
    /\ probe' = [ probe EXCEPT !.click = "loginPopup", !.clicks = @ + 1,
                               !.isLoading = TRUE, !.error = "null" ]
    /\ UNCHANGED << restVars, docdb >>

\* the catch and finally blocks of signIn
SignInCaught(state) ==
    [ state EXCEPT !.click = "idle", !.error = "Failed to sign in",
                   !.isAuthenticated = FALSE, !.isLoading = FALSE ]

\* loginPopup settles
SignInPopup ==
    /\ probe.op = "auth"
    /\ probe.click = "loginPopup"
    /\ \E ok \in BOOLEAN :
        probe' = IF ok
                 THEN [ probe EXCEPT !.click = "getUserData",
                                     !.accounts = TRUE,
                                     !.isAuthenticated = TRUE ]
                 ELSE SignInCaught(probe)
    /\ UNCHANGED << restVars, docdb >>

\* the await of getUserData in signIn settles
SignInProfile ==
    /\ probe.op = "auth"
    /\ probe.click = "getUserData"
    /\ \/ \E mail \in Mails :
            probe' = [ GetUserData(probe, mail) EXCEPT !.click = "loads" ]
       \/ probe' = SignInCaught(GetUserDataThrows(probe))
    /\ UNCHANGED << restVars, docdb >>

\* the three loaders of signIn settle, then its finally block
SignInLoads ==
    /\ probe.op = "auth"
    /\ probe.click = "loads"
    /\ \E failed \in BOOLEAN :
        probe' = [ probe EXCEPT
                     !.click = "idle", !.isLoading = FALSE,
                     !.error = IF failed THEN "Failed to fetch emails" ELSE @ ]
    /\ UNCHANGED << restVars, docdb >>

\* the sign-out button, shown while authenticated and disabled while loading
SignOut ==
    /\ probe.op = "auth"
    /\ probe.click = "idle"
    /\ probe.clicks < MaxClicks
    /\ probe.isAuthenticated
    /\ ~probe.isLoading
    /\ probe' = [ probe EXCEPT !.click = "logoutPopup", !.clicks = @ + 1,
                               !.isLoading = TRUE, !.error = "null" ]
    /\ UNCHANGED << restVars, docdb >>

\* logoutPopup settles
SignOutPopup ==
    /\ probe.op = "auth"
    /\ probe.click = "logoutPopup"
    /\ \E ok \in BOOLEAN :
        probe' = IF ok
                 THEN [ probe EXCEPT !.click = "idle", !.accounts = FALSE,
                                     !.isAuthenticated = FALSE,
                                     !.userData = NoUserData,
                                     !.isLoading = FALSE ]
                 ELSE [ probe EXCEPT !.click = "idle",
                                     !.error = "Failed to sign out",
                                     !.isLoading = FALSE ]
    /\ UNCHANGED << restVars, docdb >>

AuthNext ==
    \/ InitializeAuth
    \/ InitializeAuthProfile
    \/ InitializeAuthLoads
    \/ SignIn
    \/ SignInPopup
    \/ SignInProfile
    \/ SignInLoads
    \/ SignOut
    \/ SignOutPopup

SpecAuth == AuthInit /\ [][AuthNext]_vars

\* initializeAuth has finished and no handler is running
AuthSettled ==
    /\ probe.op = "auth"
    /\ probe.init = "done"
    /\ probe.click = "idle"

\* C30 as stated. Authenticated implies profile loaded: in every state
\* reached after initializeAuth or signIn has finished, isAuthenticated =
\* true implies userData is non-null (so the userId given to Assistant and
\* KnowledgeBase is the user's email, never the empty string); if loading
\* the profile fails, isAuthenticated is false.
C30_AuthenticatedImpliesProfile ==
    AuthSettled =>
        /\ probe.isAuthenticated =>
               /\ probe.userData # NoUserData
               /\ UserIdProp(probe.userData) # ""
        /\ probe.profileFailed => ~probe.isAuthenticated

=============================================================================
